---- MODULE Spec2Model ----
(***************************************************************************)
(* Verification model of antigravity-usage: account storage, global        *)
(* config, quota cache, account manager, token manager, the OAuth login    *)
(* flow, the refresh-all command, the local port prober and the cron       *)
(* installer.  Times are epoch milliseconds.  An                           *)
(* e-mail address is a tuple of one-character strings so that the          *)
(* file-name sanitisation of getAccountDir can be computed character by    *)
(* character.                                                              *)
(***************************************************************************)
EXTENDS Integers, Sequences, FiniteSets, TLC

\* ------------------------------------------------------------------------
\* Program constants
\* ------------------------------------------------------------------------
EXPIRY_BUFFER_MS == 300000

DEFAULT_CACHE_TTL == 300

OAUTH_TIMEOUT_MS == 120000

\* ------------------------------------------------------------------------
\* Values
\* ------------------------------------------------------------------------
\* JavaScript null / undefined for an e-mail (both falsy; the code never
\* stores the empty string as an address)
Null == << >>

\* an optional string field that is undefined (dropped by JSON.stringify)
Undefined == "<undefined>"

\* a path at which no file exists
NoFile == [kind |-> "absent"]

\* a file whose content JSON.parse rejects
Malformed == [kind |-> "malformed"]

EmailA == <<"a", "@", "x">>

EmailB == <<"b", "@", "x">>

EmailCPlus == <<"c", "+", "x">>

EmailCUnder == <<"c", "_", "x">>

Emails == {EmailA, EmailB, EmailCPlus, EmailCUnder}

\* characters kept by the regular expression [^a-zA-Z0-9@._-]
SafeChars == {"a", "b", "c", "x", "@", ".", "_", "-"}

\* getAccountDir: the directory name of an account
SafeName(email) ==
    [i \in DOMAIN email |-> IF email[i] \in SafeChars THEN email[i] ELSE "_"]

Dirs == {SafeName(e) : e \in Emails}

\* new Date(ms).toISOString(): millisecond precision ISO-8601 text
ToISOString(ms) == [iso |-> ms]

\* new Date(text).getTime()
DateParse(text) == text.iso

StoredTokens(at, rt, exp, email, pid) ==
    [kind |-> "tokens", accessToken |-> at, refreshToken |-> rt,
     expiresAt |-> exp, email |-> email, projectId |-> pid]

VARIABLES
    now,          \* Date.now()
    order,        \* the order in which readdirSync enumerates the accounts dir
    configFile,   \* config.json
    dirs,         \* the account directories that exist
    tokenFile,    \* accounts/<dir>/tokens.json
    metaFile,     \* accounts/<dir>/metadata.json
    cacheFile,    \* accounts/<dir>/cache.json
    legacyFile,   \* tokens.json of the legacy single-account layout
    lastOp,       \* the last storage operation, its arguments and its result
    mgr,          \* the TokenManager objects: accountEmail and tokens
    calls,        \* the asynchronous calls made on the token managers
    issued,       \* the number of access tokens the provider has issued
    flow,         \* the OAuth login flow: listener, timer and promise
    reqs,         \* the requests handled by the flow's callback listener
    cmd,          \* the `accounts refresh --all` command: loop and counters
    probe,        \* the port prober: candidate ports and probe attempts
    defaultPreferences,  \* DEFAULT_CONFIG.preferences, one object in memory
    crontab       \* the lines of the user's crontab

vars == <<now, order, configFile, dirs, tokenFile, metaFile, cacheFile,
          legacyFile, lastOp, mgr, calls, issued, flow, reqs, cmd, probe,
          defaultPreferences, crontab>>

storage == <<configFile, dirs, tokenFile, metaFile, cacheFile, legacyFile>>

\* the state of the objects and asynchronous calls in the process
procs == <<mgr, calls, issued, flow, reqs, cmd, probe, defaultPreferences,
          crontab>>

oauth == <<flow, reqs>>

\* ------------------------------------------------------------------------
\* accounts/config.ts
\* ------------------------------------------------------------------------
DEFAULT_CONFIG ==
    [kind |-> "config", version |-> "2.0", activeAccount |-> Null,
     cacheTTL |-> DEFAULT_CACHE_TTL]

\* loadConfig that takes a file lacking a field for unreadable
loadConfig_NoMerge ==
    IF configFile.kind = "config"
          /\ DOMAIN configFile = DOMAIN DEFAULT_CONFIG
    THEN configFile ELSE DEFAULT_CONFIG

\* a parsed file is merged over the defaults field by field (cacheTTL stands
\* for preferences.cacheTTL); a missing or unparsable file gives a shallow
\* copy of the defaults, whose preferences are the object of DEFAULT_CONFIG
loadConfig ==
    IF configFile.kind = "config"
    THEN [kind |-> "config",
          version |-> IF "version" \in DOMAIN configFile
                      THEN configFile.version ELSE DEFAULT_CONFIG.version,
          activeAccount |-> IF "activeAccount" \in DOMAIN configFile
                            THEN configFile.activeAccount
                            ELSE DEFAULT_CONFIG.activeAccount,
          cacheTTL |-> IF "cacheTTL" \in DOMAIN configFile
                       THEN configFile.cacheTTL
                       ELSE defaultPreferences.cacheTTL]
    ELSE [DEFAULT_CONFIG EXCEPT !.cacheTTL = defaultPreferences.cacheTTL]

getActiveAccountEmail == loadConfig.activeAccount

\* setActiveAccountEmail that starts from the defaults, not from the file
setActiveAccountEmail_FromDefaults(email) ==
    [DEFAULT_CONFIG EXCEPT !.activeAccount = email]

\* the config.json written by setActiveAccountEmail(email)
setActiveAccountEmail(email) == [loadConfig EXCEPT !.activeAccount = email]

getCacheTTL == loadConfig.cacheTTL

\* ------------------------------------------------------------------------
\* accounts/storage.ts
\* ------------------------------------------------------------------------
accountExists(email) ==
    /\ SafeName(email) \in dirs
    /\ tokenFile[SafeName(email)] # NoFile

listAccountEmails ==
    SelectSeq(order, LAMBDA d : d \in dirs /\ tokenFile[d] # NoFile)

loadAccountTokens(email) ==
    IF tokenFile[SafeName(email)].kind = "tokens"
    THEN tokenFile[SafeName(email)] ELSE NoFile

loadAccountMetadata(email) ==
    IF metaFile[SafeName(email)].kind = "metadata"
    THEN metaFile[SafeName(email)] ELSE NoFile

loadAccountCache(email) ==
    IF cacheFile[SafeName(email)].kind = "cache"
    THEN cacheFile[SafeName(email)] ELSE NoFile

\* metadata.json of every account after updateLastUsed(email) on files mf
updateLastUsed(mf, email) ==
    IF mf[SafeName(email)].kind = "metadata"
    THEN [mf EXCEPT ![SafeName(email)].lastUsed = ToISOString(now)]
    ELSE mf

\* saveConfig(config): a whole-file write of config.json
saveConfig(config) ==
    /\ configFile' = config
    /\ UNCHANGED <<dirs, tokenFile, metaFile, cacheFile, legacyFile, now, order, procs>>
    /\ lastOp' = [op |-> "saveConfig", config |-> config]

\* the value undefined of property key: an absent address is Null, an absent
\* string is Undefined
UndefinedOf(key) == IF key = "email" THEN Null ELSE Undefined

\* the properties of the model's records that can be undefined
OptionalKeys == {"email", "projectId"}

\* JSON.stringify(value): a property whose value is undefined is left out
JSONStringify(value) ==
    [k \in {x \in DOMAIN value :
                ~(x \in OptionalKeys /\ value[x] = UndefinedOf(x))}
        |-> value[k]]

\* obj[key] of an object read back by JSON.parse: a property that is not in
\* the text reads as undefined
Property(obj, key) == IF key \in DOMAIN obj THEN obj[key] ELSE UndefinedOf(key)

\* saveAccountTokens(email, tokens): ensureAccountDir, then a whole-file write
saveAccountTokens(email, tokens) ==
    /\ dirs' = dirs \cup {SafeName(email)}
    /\ tokenFile' = [tokenFile EXCEPT ![SafeName(email)] = JSONStringify(tokens)]
    /\ UNCHANGED <<configFile, metaFile, cacheFile, legacyFile, now, order, procs>>
    /\ lastOp' = [op |-> "saveAccountTokens", email |-> email,
                  tokens |-> tokens]

\* saveAccountMetadata(email, metadata)
saveAccountMetadata(email, metadata) ==
    /\ dirs' = dirs \cup {SafeName(email)}
    /\ metaFile' = [metaFile EXCEPT ![SafeName(email)] = JSONStringify(metadata)]
    /\ UNCHANGED <<configFile, tokenFile, cacheFile, legacyFile, now, order, procs>>
    /\ lastOp' = [op |-> "saveAccountMetadata", email |-> email]

\* saveAccountCache(email, cache)
saveAccountCache(email, cache) ==
    /\ dirs' = dirs \cup {SafeName(email)}
    /\ cacheFile' = [cacheFile EXCEPT ![SafeName(email)] = JSONStringify(cache)]
    /\ UNCHANGED <<configFile, tokenFile, metaFile, legacyFile, now, order, procs>>
    /\ lastOp' = [op |-> "saveAccountCache", email |-> email]

\* deleteAccount(email); deleteOk: whether rmSync of the directory succeeds
deleteAccount(email, deleteOk) ==
    LET d == SafeName(email)
        deleted == d \in dirs /\ deleteOk
    IN
    /\ dirs' = IF deleted THEN dirs \ {d} ELSE dirs
    /\ tokenFile' = IF deleted THEN [tokenFile EXCEPT ![d] = NoFile]
                    ELSE tokenFile
    /\ metaFile' = IF deleted THEN [metaFile EXCEPT ![d] = NoFile]
                   ELSE metaFile
    /\ cacheFile' = IF deleted THEN [cacheFile EXCEPT ![d] = NoFile]
                    ELSE cacheFile
    /\ UNCHANGED <<configFile, legacyFile, now, order, procs>>
    /\ lastOp' = [op |-> "deleteAccount", email |-> email,
                  result |-> deleted]

\* ------------------------------------------------------------------------
\* accounts/cache.ts
\* ------------------------------------------------------------------------
\* JavaScript null as the data of a cache record
NullData == "<null>"

\* isCacheValid with <= in place of <
isCacheValid_Inclusive(email) ==
    LET cache == loadAccountCache(email) IN
    IF cache = NoFile \/ cache.data = NullData THEN FALSE
    ELSE (now - DateParse(cache.cachedAt)) <= cache.ttl * 1000

isCacheValid(email) ==
    LET cache == loadAccountCache(email) IN
    IF cache = NoFile \/ cache.data = NullData THEN FALSE
    ELSE (now - DateParse(cache.cachedAt)) < cache.ttl * 1000

\* getCacheAge: whole seconds since cachedAt, NoFile standing for null
getCacheAge(email) ==
    LET cache == loadAccountCache(email) IN
    IF cache = NoFile THEN NoFile
    ELSE [age |-> (now - DateParse(cache.cachedAt)) \div 1000]

\* loadCache: the data of the record, NullData standing for null
loadCache(email) ==
    LET cache == loadAccountCache(email) IN
    IF cache = NoFile THEN NullData ELSE cache.data

\* saveCache that keeps the ttl of the record it replaces
saveCache_KeepTTL(email, data) ==
    /\ dirs' = dirs \cup {SafeName(email)}
    /\ cacheFile' = [cacheFile EXCEPT ![SafeName(email)] =
                        [kind |-> "cache", cachedAt |-> ToISOString(now),
                         ttl |-> IF loadAccountCache(email) = NoFile
                                 THEN getCacheTTL
                                 ELSE loadAccountCache(email).ttl,
                         data |-> data]]
    /\ UNCHANGED <<configFile, tokenFile, metaFile, legacyFile, now, order, procs>>
    /\ lastOp' = [op |-> "saveCache", email |-> email, data |-> data]

saveCache(email, data) ==
    /\ dirs' = dirs \cup {SafeName(email)}
    /\ cacheFile' = [cacheFile EXCEPT ![SafeName(email)] =
                        [kind |-> "cache", cachedAt |-> ToISOString(now),
                         ttl |-> getCacheTTL, data |-> data]]
    /\ UNCHANGED <<configFile, tokenFile, metaFile, legacyFile, now, order, procs>>
    /\ lastOp' = [op |-> "saveCache", email |-> email, data |-> data]

\* invalidateCache that empties the record instead of deleting its file
invalidateCache_MarkStale(email, deleteOk) ==
    /\ cacheFile' =
         IF loadAccountCache(email) # NoFile /\ deleteOk
         THEN [cacheFile EXCEPT ![SafeName(email)].data = NullData]
         ELSE cacheFile
    /\ UNCHANGED <<configFile, dirs, tokenFile, metaFile, legacyFile, now, order, procs>>
    /\ lastOp' = [op |-> "invalidateCache", email |-> email,
                  deleteOk |-> deleteOk]

\* invalidateCache -> deleteAccountCache; deleteOk: whether rmSync of
\* cache.json succeeds (its failure is caught and only logged)
invalidateCache(email, deleteOk) ==
    /\ cacheFile' =
         IF cacheFile[SafeName(email)] # NoFile /\ deleteOk
         THEN [cacheFile EXCEPT ![SafeName(email)] = NoFile]
         ELSE cacheFile
    /\ UNCHANGED <<configFile, dirs, tokenFile, metaFile, legacyFile, now, order, procs>>
    /\ lastOp' = [op |-> "invalidateCache", email |-> email,
                  deleteOk |-> deleteOk]

\* ------------------------------------------------------------------------
\* accounts/manager.ts
\* ------------------------------------------------------------------------
\* getAccountStatus that reports every expired token as refreshable
getAccountStatus_NoRefreshCheck(email) ==
    LET tokens == loadAccountTokens(email) IN
    IF tokens = NoFile THEN "invalid"
    ELSE IF now >= tokens.expiresAt - EXPIRY_BUFFER_MS
         THEN "expired"
         ELSE "valid"

\* getAccountStatus with > in place of >=
getAccountStatus_Strict(email) ==
    LET tokens == loadAccountTokens(email) IN
    IF tokens = NoFile THEN "invalid"
    ELSE IF now > tokens.expiresAt - EXPIRY_BUFFER_MS
         THEN IF tokens.refreshToken # "" THEN "expired" ELSE "invalid"
         ELSE "valid"

getAccountStatus(email) ==
    LET tokens == loadAccountTokens(email) IN
    IF tokens = NoFile THEN "invalid"
    ELSE IF now >= tokens.expiresAt - EXPIRY_BUFFER_MS
         THEN IF tokens.refreshToken # "" THEN "expired" ELSE "invalid"
         ELSE "valid"

\* getAccountSummaries(): one entry per listed account
getAccountSummaries ==
    [i \in DOMAIN listAccountEmails |->
        LET email == listAccountEmails[i]
            metadata == loadAccountMetadata(email)
            cache == loadAccountCache(email)
        IN [email |-> email,
            isActive |-> email = getActiveAccountEmail,
            status |-> getAccountStatus(email),
            lastUsed |-> IF metadata = NoFile THEN Null
                         ELSE metadata.lastUsed,
            cachedCredits |-> IF cache = NoFile THEN NullData
                              ELSE cache.data]]

\* setActiveAccount without the accountExists test
setActiveAccount_NoCheck(email) ==
    /\ configFile' = setActiveAccountEmail(email)
    /\ metaFile' = updateLastUsed(metaFile, email)
    /\ UNCHANGED <<dirs, tokenFile, cacheFile, legacyFile>>
    /\ lastOp' = [op |-> "setActiveAccount", email |-> email,
                  result |-> TRUE]
    /\ UNCHANGED <<now, order, procs>>

setActiveAccount(email) ==
    /\ IF ~accountExists(email)
       THEN /\ UNCHANGED storage
            /\ lastOp' = [op |-> "setActiveAccount", email |-> email,
                          result |-> FALSE]
       ELSE /\ configFile' = setActiveAccountEmail(email)
            /\ metaFile' = updateLastUsed(metaFile, email)
            /\ UNCHANGED <<dirs, tokenFile, cacheFile, legacyFile>>
            /\ lastOp' = [op |-> "setActiveAccount", email |-> email,
                          result |-> TRUE]
    /\ UNCHANGED <<now, order, procs>>

\* addAccount that activates the new account only when none is active
addAccount_KeepActive(tokens, email) ==
    /\ dirs' = dirs \cup {SafeName(email)}
    /\ tokenFile' = [tokenFile EXCEPT ![SafeName(email)] = tokens]
    /\ metaFile' = [metaFile EXCEPT ![SafeName(email)] =
                       [kind |-> "metadata", email |-> email,
                        addedAt |-> ToISOString(now),
                        lastUsed |-> ToISOString(now)]]
    /\ configFile' = IF getActiveAccountEmail = Null
                     THEN setActiveAccountEmail(email) ELSE configFile
    /\ UNCHANGED <<cacheFile, legacyFile>>

\* the effect of addAccount on the files
addAccount(tokens, email) ==
    /\ dirs' = dirs \cup {SafeName(email)}
    /\ tokenFile' = [tokenFile EXCEPT ![SafeName(email)] = tokens]
    /\ metaFile' = [metaFile EXCEPT ![SafeName(email)] =
                       [kind |-> "metadata", email |-> email,
                        addedAt |-> ToISOString(now),
                        lastUsed |-> ToISOString(now)]]
    /\ configFile' = setActiveAccountEmail(email)
    /\ UNCHANGED <<cacheFile, legacyFile>>

\* updateTokens(email, tokens): saveAccountTokens and updateLastUsed for an
\* existing account, nothing otherwise; result: whether it wrote
updateTokens(email, tokens) ==
    /\ IF ~accountExists(email)
       THEN /\ UNCHANGED storage
            /\ lastOp' = [op |-> "updateTokens", email |-> email,
                          result |-> FALSE]
       ELSE /\ tokenFile' = [tokenFile EXCEPT ![SafeName(email)] = tokens]
            /\ metaFile' = updateLastUsed(metaFile, email)
            /\ UNCHANGED <<configFile, dirs, cacheFile, legacyFile>>
            /\ lastOp' = [op |-> "updateTokens", email |-> email,
                          result |-> TRUE]
    /\ UNCHANGED <<now, order, procs>>

\* promotion of the last remaining account instead of the first
PromotedActive_Last(remaining) ==
    IF Len(remaining) > 0 THEN remaining[Len(remaining)] ELSE Null

\* the account promoted once the active account is deleted
PromotedActive(remaining) ==
    IF Len(remaining) > 0 THEN remaining[1] ELSE Null

\* deleteOk: whether rmSync of the account directory succeeds
removeAccount(email, deleteOk) ==
    LET activeEmail == getActiveAccountEmail
        d == SafeName(email)
        deleted == d \in dirs /\ deleteOk
        cleared == IF email = activeEmail
                   THEN setActiveAccountEmail(Null) ELSE configFile
    IN
    /\ IF ~accountExists(email)
       THEN /\ UNCHANGED storage
            /\ lastOp' = [op |-> "removeAccount", email |-> email,
                          result |-> FALSE, prevActive |-> activeEmail]
       ELSE /\ dirs' = IF deleted THEN dirs \ {d} ELSE dirs
            /\ tokenFile' = IF deleted THEN [tokenFile EXCEPT ![d] = NoFile]
                            ELSE tokenFile
            /\ metaFile' = IF deleted THEN [metaFile EXCEPT ![d] = NoFile]
                           ELSE metaFile
            /\ cacheFile' = IF deleted THEN [cacheFile EXCEPT ![d] = NoFile]
                            ELSE cacheFile
            /\ configFile' =
                 IF deleted /\ email = activeEmail
                 THEN LET remaining ==
                            SelectSeq(order, LAMBDA x :
                                x \in dirs' /\ tokenFile'[x] # NoFile)
                      IN [cleared EXCEPT
                            !.activeAccount = PromotedActive(remaining)]
                 ELSE cleared
            /\ lastOp' = [op |-> "removeAccount", email |-> email,
                          result |-> deleted, prevActive |-> activeEmail]
            /\ UNCHANGED legacyFile
    /\ UNCHANGED <<now, order, procs>>

\* removeAllAccounts that counts every listed account as removed
removeAllAccounts_CountAll(failing) ==
    LET emails == listAccountEmails
        removed == {emails[i] : i \in DOMAIN emails} \ failing
    IN
    /\ dirs' = dirs \ removed
    /\ tokenFile' = [d \in Dirs |-> IF d \in removed THEN NoFile
                                     ELSE tokenFile[d]]
    /\ metaFile' = [d \in Dirs |-> IF d \in removed THEN NoFile
                                    ELSE metaFile[d]]
    /\ cacheFile' = [d \in Dirs |-> IF d \in removed THEN NoFile
                                     ELSE cacheFile[d]]
    /\ configFile' = setActiveAccountEmail(Null)
    /\ lastOp' = [op |-> "removeAllAccounts", result |-> Len(emails),
                  listed |-> Len(emails), prevActive |-> getActiveAccountEmail]
    /\ UNCHANGED <<legacyFile, now, order, procs>>

\* failing: the account directories whose rmSync fails
removeAllAccounts(failing) ==
    LET emails == listAccountEmails
        removed == {emails[i] : i \in DOMAIN emails} \ failing
    IN
    /\ dirs' = dirs \ removed
    /\ tokenFile' = [d \in Dirs |-> IF d \in removed THEN NoFile
                                     ELSE tokenFile[d]]
    /\ metaFile' = [d \in Dirs |-> IF d \in removed THEN NoFile
                                    ELSE metaFile[d]]
    /\ cacheFile' = [d \in Dirs |-> IF d \in removed THEN NoFile
                                     ELSE cacheFile[d]]
    /\ configFile' = setActiveAccountEmail(Null)
    /\ lastOp' = [op |-> "removeAllAccounts", result |-> Cardinality(removed),
                  listed |-> Len(emails), prevActive |-> getActiveAccountEmail]
    /\ UNCHANGED <<legacyFile, now, order, procs>>

\* ------------------------------------------------------------------------
\* google/storage.ts: tokens of the active account, legacy single-account
\* record as the fallback
\* ------------------------------------------------------------------------
loadTokens ==
    IF getActiveAccountEmail # Null
          /\ loadAccountTokens(getActiveAccountEmail) # NoFile
    THEN loadAccountTokens(getActiveAccountEmail)
    ELSE IF legacyFile.kind = "tokens" THEN legacyFile ELSE NoFile

\* the effect of saveTokens(tokens) on the files
saveTokens(tokens) ==
    IF tokens.email = Null
    THEN /\ legacyFile' = tokens
         /\ UNCHANGED <<configFile, dirs, tokenFile, metaFile, cacheFile>>
    ELSE /\ dirs' = dirs \cup {SafeName(tokens.email)}
         /\ tokenFile' = [tokenFile EXCEPT ![SafeName(tokens.email)] = tokens]
         /\ configFile' = IF getActiveAccountEmail = Null
                          THEN setActiveAccountEmail(tokens.email)
                          ELSE configFile
         /\ UNCHANGED <<legacyFile, metaFile, cacheFile>>

\* hasTokens(): the active account exists, or else the legacy file exists
hasTokens ==
    \/ getActiveAccountEmail # Null /\ accountExists(getActiveAccountEmail)
    \/ legacyFile # NoFile

\* deleteTokens(); deleteOk: whether rmSync / unlinkSync succeeds
deleteTokens(deleteOk) ==
    LET activeEmail == getActiveAccountEmail
        d == SafeName(activeEmail)
    IN
    /\ IF activeEmail # Null /\ accountExists(activeEmail)
       THEN /\ dirs' = IF deleteOk THEN dirs \ {d} ELSE dirs
            /\ tokenFile' = IF deleteOk THEN [tokenFile EXCEPT ![d] = NoFile]
                            ELSE tokenFile
            /\ metaFile' = IF deleteOk THEN [metaFile EXCEPT ![d] = NoFile]
                           ELSE metaFile
            /\ cacheFile' = IF deleteOk THEN [cacheFile EXCEPT ![d] = NoFile]
                            ELSE cacheFile
            /\ UNCHANGED <<configFile, legacyFile>>
            /\ lastOp' = [op |-> "deleteTokens", result |-> deleteOk,
                          prevActive |-> activeEmail, target |-> "account"]
       ELSE IF legacyFile = NoFile
       THEN /\ UNCHANGED storage
            /\ lastOp' = [op |-> "deleteTokens", result |-> FALSE,
                          prevActive |-> activeEmail, target |-> "none"]
       ELSE /\ legacyFile' = IF deleteOk THEN NoFile ELSE legacyFile
            /\ UNCHANGED <<configFile, dirs, tokenFile, metaFile, cacheFile>>
            /\ lastOp' = [op |-> "deleteTokens", result |-> deleteOk,
                          prevActive |-> activeEmail, target |-> "legacy"]
    /\ UNCHANGED <<now, order, procs>>

\* ------------------------------------------------------------------------
\* google/token-manager.ts and the provider's token endpoint
\* ------------------------------------------------------------------------
Managers == {"M1", "M2"}

MaxCalls == 2

Calls == 1..MaxCalls

NoMgr == [kind |-> "none"]

IdleCall ==
    [pc |-> "idle", mgr |-> "-", op |-> "-", sent |-> "", result |-> "-",
     value |-> "-"]

\* the access tokens the provider issues, in the order of issue
AccessNames == <<"at1", "at2", "at3", "at4", "at5", "at6">>

\* the refresh token the provider issues when it rotates
RotatedNames == <<"rt1", "rt2", "rt3", "rt4", "rt5", "rt6">>

\* new TokenManager(email); email = Null is the call without an argument
TokenManager(email) ==
    IF email # Null
    THEN [kind |-> "mgr", accountEmail |-> email,
          tokens |-> loadAccountTokens(email)]
    ELSE [kind |-> "mgr", accountEmail |-> getActiveAccountEmail,
          tokens |-> IF getActiveAccountEmail # Null
                     THEN loadAccountTokens(getActiveAccountEmail)
                     ELSE loadTokens]

\* isTokenExpired with > in place of >=
isTokenExpired_Strict(m) ==
    IF mgr[m].tokens = NoFile THEN TRUE
    ELSE now > mgr[m].tokens.expiresAt - EXPIRY_BUFFER_MS

isTokenExpired(m) ==
    IF mgr[m].tokens = NoFile THEN TRUE
    ELSE now >= mgr[m].tokens.expiresAt - EXPIRY_BUFFER_MS

\* "Save to disk" of refreshToken for manager m
Persist(m, tokens) ==
    IF mgr[m].accountEmail # Null
    THEN /\ dirs' = dirs \cup {SafeName(mgr[m].accountEmail)}
         /\ tokenFile' =
              [tokenFile EXCEPT ![SafeName(mgr[m].accountEmail)] = tokens]
         /\ metaFile' =
              IF metaFile[SafeName(mgr[m].accountEmail)].kind = "metadata"
              THEN [metaFile EXCEPT ![SafeName(mgr[m].accountEmail)].lastUsed
                                        = ToISOString(now)]
              ELSE metaFile
         /\ UNCHANGED <<configFile, cacheFile, legacyFile>>
    ELSE saveTokens(tokens)

\* the head of refreshToken() testing this.tokens only, not the refresh token
RefreshHead_SendsEmpty(c, m, op) ==
    IF mgr[m].tokens = NoFile
    THEN calls' = [calls EXCEPT ![c] =
                     [IdleCall EXCEPT !.pc = "done", !.mgr = m, !.op = op,
                                      !.result = "NotLoggedIn"]]
    ELSE calls' = [calls EXCEPT ![c] =
                     [IdleCall EXCEPT !.pc = "awaitRefresh", !.mgr = m,
                                      !.op = op,
                                      !.sent = mgr[m].tokens.refreshToken]]

\* the synchronous head of refreshToken() in call c on manager m: it throws
\* NotLoggedIn, or sends the refresh request and suspends at the await
RefreshHead(c, m, op) ==
    IF mgr[m].tokens = NoFile \/ mgr[m].tokens.refreshToken = ""
    THEN calls' = [calls EXCEPT ![c] =
                     [IdleCall EXCEPT !.pc = "done", !.mgr = m, !.op = op,
                                      !.result = "NotLoggedIn"]]
    ELSE calls' = [calls EXCEPT ![c] =
                     [IdleCall EXCEPT !.pc = "awaitRefresh", !.mgr = m,
                                      !.op = op,
                                      !.sent = mgr[m].tokens.refreshToken]]

\* a caller invokes getValidAccessToken() on manager m
getValidAccessToken(c, m) ==
    /\ calls[c].pc = "idle"
    /\ mgr[m].kind = "mgr"
    /\ IF mgr[m].tokens = NoFile
       THEN calls' = [calls EXCEPT ![c] =
                        [IdleCall EXCEPT !.pc = "done", !.mgr = m,
                                         !.op = "getValidAccessToken",
                                         !.result = "NotLoggedIn"]]
       ELSE IF isTokenExpired(m)
            THEN RefreshHead(c, m, "getValidAccessToken")
            ELSE calls' = [calls EXCEPT ![c] =
                             [IdleCall EXCEPT !.pc = "done", !.mgr = m,
                                   !.op = "getValidAccessToken",
                                   !.result = "returned",
                                   !.value = mgr[m].tokens.accessToken]]
    /\ UNCHANGED <<now, order, storage, mgr, issued, oauth, cmd, probe,
                   defaultPreferences, crontab>>
    /\ UNCHANGED lastOp

\* a caller invokes refreshToken() on manager m
refreshToken(c, m) ==
    /\ calls[c].pc = "idle"
    /\ mgr[m].kind = "mgr"
    /\ RefreshHead(c, m, "refreshToken")
    /\ UNCHANGED <<now, order, storage, mgr, issued, oauth, cmd, probe,
                   defaultPreferences, crontab>>
    /\ UNCHANGED lastOp

\* a rejection that also drops the manager's tokens
RefreshRejected_ClearsTokens(c) ==
    /\ calls[c].pc = "awaitRefresh"
    /\ calls' = [calls EXCEPT ![c].pc = "done",
                              ![c].result = "TokenRefreshError"]
    /\ mgr' = [mgr EXCEPT ![calls[c].mgr].tokens = NoFile]
    /\ UNCHANGED <<now, order, storage, issued, oauth, cmd, probe,
                   defaultPreferences, crontab>>
    /\ UNCHANGED lastOp

\* the provider rejects the refresh request of call c: refreshAccessToken
\* throws and refreshToken() fails with TokenRefreshError
RefreshRejected(c) ==
    /\ calls[c].pc = "awaitRefresh"
    /\ calls' = [calls EXCEPT ![c].pc = "done",
                              ![c].result = "TokenRefreshError"]
    /\ UNCHANGED <<now, order, storage, mgr, issued, oauth, cmd, probe,
                   defaultPreferences, crontab>>
    /\ UNCHANGED lastOp

\* a refresh that keeps only the refresh token of the response
RefreshGranted_DropRefresh(c, expiresIn, rotate) ==
    LET m == calls[c].mgr
        newTokens ==
            StoredTokens(AccessNames[issued + 1],
                         IF rotate THEN RotatedNames[issued + 1]
                         ELSE "",
                         now + expiresIn * 1000,
                         mgr[m].tokens.email,
                         mgr[m].tokens.projectId)
    IN
    /\ calls[c].pc = "awaitRefresh"
    /\ issued' = issued + 1
    /\ IF mgr[m].tokens = NoFile
       THEN /\ calls' = [calls EXCEPT ![c].pc = "done",
                                      ![c].result = "TokenRefreshError"]
            /\ UNCHANGED <<storage, mgr>>
       ELSE /\ mgr' = [mgr EXCEPT ![m].tokens = newTokens]
            /\ Persist(m, newTokens)
            /\ calls' =
                 IF calls[c].op = "refreshToken"
                 THEN [calls EXCEPT ![c].pc = "done",
                                    ![c].result = "returned"]
                 ELSE [calls EXCEPT ![c].pc = "resume"]
    /\ UNCHANGED <<now, order, oauth, cmd, lastOp, probe, defaultPreferences, crontab>>

\* the provider answers the refresh request of call c with a new access
\* token living expiresIn seconds and, when rotate, a new refresh token;
\* refreshToken() resumes after its await
RefreshGranted(c, expiresIn, rotate) ==
    LET m == calls[c].mgr
        newTokens ==
            StoredTokens(AccessNames[issued + 1],
                         IF rotate THEN RotatedNames[issued + 1]
                         ELSE mgr[m].tokens.refreshToken,
                         now + expiresIn * 1000,
                         mgr[m].tokens.email,
                         mgr[m].tokens.projectId)
    IN
    /\ calls[c].pc = "awaitRefresh"
    /\ issued' = issued + 1
    /\ IF mgr[m].tokens = NoFile
       THEN /\ calls' = [calls EXCEPT ![c].pc = "done",
                                      ![c].result = "TokenRefreshError"]
            /\ UNCHANGED <<storage, mgr>>
       ELSE /\ mgr' = [mgr EXCEPT ![m].tokens = newTokens]
            /\ Persist(m, newTokens)
            /\ calls' =
                 IF calls[c].op = "refreshToken"
                 THEN [calls EXCEPT ![c].pc = "done",
                                    ![c].result = "returned"]
                 ELSE [calls EXCEPT ![c].pc = "resume"]
    /\ UNCHANGED <<now, order, oauth, cmd, lastOp, probe, defaultPreferences, crontab>>

\* getValidAccessToken() resumes after `await this.refreshToken()` and
\* returns this.tokens.accessToken
ResumeGetValidAccessToken(c) ==
    /\ calls[c].pc = "resume"
    /\ calls' =
         IF mgr[calls[c].mgr].tokens = NoFile
         THEN [calls EXCEPT ![c].pc = "done", ![c].result = "TypeError"]
         ELSE [calls EXCEPT ![c].pc = "done", ![c].result = "returned",
                            ![c].value = mgr[calls[c].mgr].tokens.accessToken]
    /\ UNCHANGED <<now, order, storage, mgr, issued, oauth, cmd, probe,
                   defaultPreferences, crontab>>
    /\ UNCHANGED lastOp

\* getTokenManagerForAccount(email) / getTokenManager(): object m is built
NewTokenManager(m, email) ==
    /\ mgr[m] = NoMgr
    /\ mgr' = [mgr EXCEPT ![m] = TokenManager(email)]
    /\ UNCHANGED <<now, order, storage, calls, issued, oauth, cmd, probe,
                   defaultPreferences, crontab>>
    /\ UNCHANGED lastOp

\* setProjectId(projectId) on manager m: the held token set gets the project
\* id and is written out whole
setProjectId(m, projectId) ==
    LET tokens == [mgr[m].tokens EXCEPT !.projectId = projectId]
    IN
    /\ mgr[m].kind = "mgr"
    /\ IF mgr[m].tokens = NoFile
       THEN UNCHANGED <<storage, mgr>>
       ELSE /\ mgr' = [mgr EXCEPT ![m].tokens = tokens]
            /\ IF mgr[m].accountEmail # Null
               THEN /\ dirs' = dirs \cup {SafeName(mgr[m].accountEmail)}
                    /\ tokenFile' =
                         [tokenFile EXCEPT
                            ![SafeName(mgr[m].accountEmail)] = tokens]
                    /\ UNCHANGED <<configFile, metaFile, cacheFile,
                                   legacyFile>>
               ELSE saveTokens(tokens)
    /\ UNCHANGED <<now, order, calls, issued, oauth, cmd, probe,
                   defaultPreferences, crontab>>
    /\ UNCHANGED lastOp

\* ------------------------------------------------------------------------
\* google/oauth.ts: startOAuthFlow, its callback handler and its timer
\* ------------------------------------------------------------------------
MaxReqs == 2

Reqs == 1..MaxReqs

NoResult == [kind |-> "none"]

OAuthResult(success, email, error) ==
    [kind |-> "result", success |-> success, email |-> email,
     error |-> error]

IdleFlow ==
    [pc |-> "idle", state |-> "-", resolved |-> FALSE, result |-> NoResult,
     closeCalls |-> 0, timerFired |-> FALSE, startedAt |-> 0]

IdleReq ==
    [pc |-> "idle", accessToken |-> "-", refreshToken |-> "",
     expiresIn |-> 0, email |-> Null]

\* a request whose handler has returned
DoneReq == [IdleReq EXCEPT !.pc = "done"]

\* "resolved = true; server.close(); resolve(r)": a promise keeps the
\* first value it is resolved with
Finish(f, r) ==
    [f EXCEPT !.resolved = TRUE,
              !.closeCalls = @ + 1,
              !.result = IF @ = NoResult THEN r ELSE @]

\* startOAuthFlow(): the state value is generated, the listener and the
\* 2-minute timer are started
startOAuthFlow ==
    /\ flow.pc = "idle"
    /\ flow' = [IdleFlow EXCEPT !.pc = "waiting", !.state = "s1",
                                !.startedAt = now]
    /\ UNCHANGED <<now, order, storage, mgr, calls, issued, reqs, cmd, probe,
                   defaultPreferences, crontab>>
    /\ lastOp' = [op |-> "startOAuthFlow"]

\* a handler that tests the code only and never compares the state value
Callback_NoStateCheck(q, path, errorParam, code, returnedState) ==
    /\ flow.pc = "waiting"
    /\ reqs[q].pc = "idle"
    /\ IF flow.resolved \/ path # "/callback"
       THEN /\ reqs' = [reqs EXCEPT ![q] = DoneReq]
            /\ UNCHANGED flow
       ELSE IF errorParam # ""
       THEN /\ reqs' = [reqs EXCEPT ![q] = DoneReq]
            /\ flow' = Finish(flow, OAuthResult(FALSE, Null, errorParam))
       ELSE IF code = ""
       THEN /\ reqs' = [reqs EXCEPT ![q] = DoneReq]
            /\ flow' = Finish(flow,
                              OAuthResult(FALSE, Null, "Invalid callback"))
       ELSE /\ reqs' = [reqs EXCEPT ![q].pc = "exchanging"]
            /\ UNCHANGED flow
    /\ UNCHANGED <<now, order, storage, mgr, calls, issued, cmd, lastOp, probe,
                   defaultPreferences, crontab>>

\* request q reaches the listener: the handler runs up to its first await.
\* code and returnedState are "" when the parameter is missing.
Callback(q, path, errorParam, code, returnedState) ==
    /\ flow.pc = "waiting"
    /\ reqs[q].pc = "idle"
    /\ IF flow.resolved \/ path # "/callback"
       THEN /\ reqs' = [reqs EXCEPT ![q] = DoneReq]
            /\ UNCHANGED flow
       ELSE IF errorParam # ""
       THEN /\ reqs' = [reqs EXCEPT ![q] = DoneReq]
            /\ flow' = Finish(flow, OAuthResult(FALSE, Null, errorParam))
       ELSE IF code = "" \/ returnedState # flow.state
       THEN /\ reqs' = [reqs EXCEPT ![q] = DoneReq]
            /\ flow' = Finish(flow,
                              OAuthResult(FALSE, Null, "Invalid callback"))
       ELSE /\ reqs' = [reqs EXCEPT ![q].pc = "exchanging"]
            /\ UNCHANGED flow
    /\ UNCHANGED <<now, order, storage, mgr, calls, issued, cmd, lastOp, probe,
                   defaultPreferences, crontab>>

\* the token endpoint rejects the code of request q: exchangeCodeForTokens
\* throws and the handler's catch block ends the flow
ExchangeFails(q) ==
    /\ reqs[q].pc = "exchanging"
    /\ reqs' = [reqs EXCEPT ![q] = DoneReq]
    /\ flow' = Finish(flow, OAuthResult(FALSE, Null, "Token exchange failed"))
    /\ UNCHANGED <<now, order, storage, mgr, calls, issued, cmd, lastOp, probe,
                   defaultPreferences, crontab>>

\* the token endpoint answers request q; the handler awaits getUserEmail
ExchangeSucceeds(q, refresh, expiresIn) ==
    /\ reqs[q].pc = "exchanging"
    /\ issued' = issued + 1
    /\ reqs' = [reqs EXCEPT ![q].pc = "userinfo",
                            ![q].accessToken = AccessNames[issued + 1],
                            ![q].refreshToken = refresh,
                            ![q].expiresIn = expiresIn]
    /\ UNCHANGED <<now, order, storage, mgr, calls, flow, cmd, lastOp, probe,
                   defaultPreferences, crontab>>

\* getUserEmail returns (Null when the lookup fails); the handler awaits
\* fetchProjectId
UserInfoReturns(q, email) ==
    /\ reqs[q].pc = "userinfo"
    /\ reqs' = [reqs EXCEPT ![q].pc = "project", ![q].email = email]
    /\ UNCHANGED <<now, order, storage, mgr, calls, issued, flow, cmd, lastOp, probe,
                   defaultPreferences, crontab>>

\* fetchProjectId returns (Undefined when it fails); the handler stores the
\* account through the account manager and ends the flow with success
ProjectIdReturns(q, projectId) ==
    LET email == reqs[q].email
        tokens == StoredTokens(reqs[q].accessToken, reqs[q].refreshToken,
                               now + reqs[q].expiresIn * 1000,
                               email, projectId)
    IN
    /\ reqs[q].pc = "project"
    /\ reqs' = [reqs EXCEPT ![q] = DoneReq]
    /\ IF email # Null
       THEN addAccount(tokens, email)
       ELSE UNCHANGED storage
    /\ flow' = Finish(flow, OAuthResult(TRUE, email, ""))
    /\ lastOp' = [op |-> "oauthLogin", email |-> email,
                  prevActive |-> getActiveAccountEmail,
                  resolvedBefore |-> flow.resolved]
    /\ UNCHANGED <<now, order, mgr, calls, issued, cmd, probe,
                   defaultPreferences, crontab>>

\* a timer that closes the listener without resolving the promise
Timeout_NoResolve ==
    /\ flow.pc = "waiting"
    /\ ~flow.timerFired
    /\ now >= flow.startedAt + OAUTH_TIMEOUT_MS
    /\ flow' = [flow EXCEPT !.timerFired = TRUE,
                            !.closeCalls = IF flow.resolved THEN @ ELSE @ + 1]
    /\ UNCHANGED <<now, order, storage, mgr, calls, issued, reqs, cmd, lastOp, probe,
                   defaultPreferences, crontab>>

\* the 2-minute timer fires
Timeout ==
    /\ flow.pc = "waiting"
    /\ ~flow.timerFired
    /\ now >= flow.startedAt + OAUTH_TIMEOUT_MS
    /\ flow' = IF flow.resolved
               THEN [flow EXCEPT !.timerFired = TRUE]
               ELSE [Finish(flow, OAuthResult(FALSE, Null, "Login timed out"))
                        EXCEPT !.timerFired = TRUE]
    /\ UNCHANGED <<now, order, storage, mgr, calls, issued, reqs, cmd, lastOp, probe,
                   defaultPreferences, crontab>>

\* ------------------------------------------------------------------------
\* commands/accounts.ts: refreshAccountCommand with options.all
\* ------------------------------------------------------------------------
IdleCmd ==
    [pc |-> "idle", emails |-> << >>, i |-> 0, successCount |-> 0,
     failCount |-> 0, tokens |-> NoFile, log |-> << >>]

\* the end of one iteration of `for (const e of emails)`: the counter of the
\* outcome is incremented and the loop moves on, or ends after the last
\* account; log records which account had which outcome
NextIteration(c, outcome) ==
    [c EXCEPT !.pc = IF c.i = Len(c.emails) THEN "done" ELSE "loop",
              !.i = @ + 1,
              !.successCount = IF outcome = "failed" THEN @ ELSE @ + 1,
              !.failCount = IF outcome = "failed" THEN @ + 1 ELSE @,
              !.tokens = NoFile,
              !.log = Append(@, [email |-> c.emails[c.i],
                                 outcome |-> outcome])]

\* refreshAccountCommand(undefined, {all: true}) up to the loop
refreshAccountCommand ==
    /\ cmd.pc = "idle"
    /\ cmd' = IF Len(listAccountEmails) = 0
              THEN [IdleCmd EXCEPT !.pc = "done"]
              ELSE [IdleCmd EXCEPT !.pc = "loop",
                                   !.emails = listAccountEmails, !.i = 1]
    /\ UNCHANGED <<now, order, storage, mgr, calls, issued, oauth, lastOp, probe,
                   defaultPreferences, crontab>>

\* one iteration up to its await: the token manager of emails[i] is built;
\* an unexpired token is skipped, a missing refresh token throws
\* NotLoggedInError into the catch block, otherwise the request is sent
RefreshAllIterate ==
    LET tm == TokenManager(cmd.emails[cmd.i])
        expired == \/ tm.tokens = NoFile
                   \/ now >= tm.tokens.expiresAt - EXPIRY_BUFFER_MS
    IN
    /\ cmd.pc = "loop"
    /\ cmd' = IF ~expired THEN NextIteration(cmd, "still valid")
              ELSE IF tm.tokens = NoFile \/ tm.tokens.refreshToken = ""
              THEN NextIteration(cmd, "failed")
              ELSE [cmd EXCEPT !.pc = "await", !.tokens = tm.tokens]
    /\ UNCHANGED <<now, order, storage, mgr, calls, issued, oauth, lastOp, probe,
                   defaultPreferences, crontab>>

\* a rejection that leaves the loop, as without the try/catch
RefreshAllRejected_Abort ==
    /\ cmd.pc = "await"
    /\ cmd' = [cmd EXCEPT !.pc = "done", !.tokens = NoFile]
    /\ UNCHANGED <<now, order, storage, mgr, calls, issued, oauth, lastOp, probe,
                   defaultPreferences, crontab>>

\* the provider rejects the request: refreshToken() throws
\* TokenRefreshError, which the catch block of the iteration records
RefreshAllRejected ==
    /\ cmd.pc = "await"
    /\ cmd' = NextIteration(cmd, "failed")
    /\ UNCHANGED <<now, order, storage, mgr, calls, issued, oauth, lastOp, probe,
                   defaultPreferences, crontab>>

\* the provider answers the request: refreshToken() stores the new token
\* set under emails[i] and the iteration records a success
RefreshAllGranted(expiresIn, rotate) ==
    LET e == cmd.emails[cmd.i]
        newTokens ==
            StoredTokens(AccessNames[issued + 1],
                         IF rotate THEN RotatedNames[issued + 1]
                         ELSE cmd.tokens.refreshToken,
                         now + expiresIn * 1000,
                         cmd.tokens.email,
                         cmd.tokens.projectId)
    IN
    /\ cmd.pc = "await"
    /\ issued' = issued + 1
    /\ dirs' = dirs \cup {SafeName(e)}
    /\ tokenFile' = [tokenFile EXCEPT ![SafeName(e)] = newTokens]
    /\ metaFile' = updateLastUsed(metaFile, e)
    /\ cmd' = NextIteration(cmd, "refreshed")
    /\ UNCHANGED <<configFile, cacheFile, legacyFile>>
    /\ UNCHANGED <<now, order, mgr, calls, flow, reqs, lastOp, probe,
                   defaultPreferences, crontab>>

\* ------------------------------------------------------------------------
\* local/port-prober.ts: probeForConnectAPI, every candidate port probed over
\* https and over http
\* ------------------------------------------------------------------------
Transports == {"https", "http"}

\* what a probe attempt ends with: a response status, a connection error or
\* the attempt's timeout
Outcomes == {"200", "404", "error", "timeout"}

NoEndpoint == [kind |-> "null"]

Undecided == [kind |-> "undecided"]

IdleProbe ==
    [pc |-> "idle", ports |-> << >>, answers |-> << >>, state |-> << >>,
     result |-> NoEndpoint]

\* the ProbeResult {baseUrl, protocol, port}
ProbeResult(protocol, port) ==
    [kind |-> "endpoint",
     baseUrl |-> <<protocol,
                   IF protocol = "https" THEN "127.0.0.1" ELSE "localhost",
                   port>>,
     protocol |-> protocol, port |-> port]

\* a probe that counts every response as a success, whatever its status
IsSuccess_AnyResponse(outcome) == outcome \in {"200", "404"}

\* a probe succeeds only on the exact status 200
IsSuccess(outcome) == outcome = "200"

Succeeded(p, i, t) == p.state[i][t] = "done" /\ IsSuccess(p.answers[i][t])

Failed(p, i, t) == p.state[i][t] = "done" /\ ~IsSuccess(p.answers[i][t])

\* the result at port ports[i]: the https success before the http success
PortResult(p, i) ==
    IF Succeeded(p, i, "https") THEN ProbeResult("https", p.ports[i])
    ELSE IF Failed(p, i, "https") /\ Succeeded(p, i, "http")
    THEN ProbeResult("http", p.ports[i])
    ELSE Undecided

\* the ports that have not failed on both transports
Open(p) ==
    {i \in DOMAIN p.ports : ~(Failed(p, i, "https") /\ Failed(p, i, "http"))}

\* a scan that gives up once the first candidate port has failed
Scan_FirstPortOnly(p) ==
    IF 1 \in Open(p) THEN PortResult(p, 1) ELSE NoEndpoint

\* the resolution policy: the first port in input order that has not failed
\* on both transports decides; no such port, no result
Scan(p) ==
    IF Open(p) = {} THEN NoEndpoint
    ELSE PortResult(p, CHOOSE i \in Open(p) : \A j \in Open(p) : i <= j)

\* the promise settles once the scan is decided; the attempts still
\* outstanding are cancelled
Settle(p) ==
    IF Scan(p) = Undecided THEN p
    ELSE [p EXCEPT !.pc = "done", !.result = Scan(p),
                   !.state = [i \in DOMAIN p.state |->
                                [t \in Transports |->
                                   IF p.state[i][t] = "pending"
                                   THEN "cancelled" ELSE p.state[i][t]]]]

\* probeForConnectAPI(ports); answers: what each port would answer on each
\* transport
probeForConnectAPI(ports, answers) ==
    /\ probe.pc = "idle"
    /\ probe' = Settle([pc |-> "probing", ports |-> ports,
                        answers |-> answers,
                        state |-> [i \in DOMAIN ports |->
                                     [t \in Transports |-> "pending"]],
                        result |-> NoEndpoint])
    /\ UNCHANGED <<now, order, storage, mgr, calls, issued, oauth, cmd, lastOp,
                   defaultPreferences, crontab>>

\* a settlement by the first attempt that succeeds, whatever its port
ProbeCompletes_FirstSuccessWins(i, t) ==
    /\ probe.pc = "probing"
    /\ i \in DOMAIN probe.ports
    /\ probe.state[i][t] = "pending"
    /\ LET p == [probe EXCEPT !.state[i][t] = "done"] IN
       probe' = IF Succeeded(p, i, t)
                THEN [p EXCEPT !.pc = "done",
                               !.result = ProbeResult(t, p.ports[i])]
                ELSE Settle(p)
    /\ UNCHANGED <<now, order, storage, mgr, calls, issued, oauth, cmd, lastOp,
                   defaultPreferences, crontab>>

\* the attempt on port ports[i] over transport t ends
ProbeCompletes(i, t) ==
    /\ probe.pc = "probing"
    /\ i \in DOMAIN probe.ports
    /\ probe.state[i][t] = "pending"
    /\ probe' = Settle([probe EXCEPT !.state[i][t] = "done"])
    /\ UNCHANGED <<now, order, storage, mgr, calls, issued, oauth, cmd, lastOp,
                   defaultPreferences, crontab>>

\* ------------------------------------------------------------------------
\* The clock
\* ------------------------------------------------------------------------
Tick(instants) ==
    /\ \E t \in instants : t > now /\ now' = t
    /\ UNCHANGED <<order, storage, procs>>
    /\ lastOp' = [op |-> "tick"]

\* ------------------------------------------------------------------------
\* Account manager specification
\* ------------------------------------------------------------------------
Permutations3(S) ==
    {p \in [1..Cardinality(S) -> S] : \A x \in S : \E i \in DOMAIN p : p[i] = x}

AcctInstants == {0, 1000}

AcctEmails == {EmailA, EmailB, EmailCPlus}

AcctTokens(email) ==
    {StoredTokens("at1", rt, 3600000, email, Undefined) : rt \in {"", "rt1"}}

InitProcs ==
    /\ mgr = [m \in Managers |-> NoMgr]
    /\ calls = [c \in Calls |-> IdleCall]
    /\ issued = 0
    /\ flow = IdleFlow
    /\ reqs = [q \in Reqs |-> IdleReq]
    /\ cmd = IdleCmd
    /\ probe = IdleProbe
    /\ defaultPreferences = [cacheTTL |-> DEFAULT_CACHE_TTL]
    /\ crontab = <<>>

InitStorage ==
    /\ configFile = NoFile
    /\ dirs = {}
    /\ tokenFile = [d \in Dirs |-> NoFile]
    /\ metaFile = [d \in Dirs |-> NoFile]
    /\ cacheFile = [d \in Dirs |-> NoFile]
    /\ legacyFile = NoFile

Init ==
    /\ now = 0
    /\ order \in Permutations3(Dirs)
    /\ InitStorage
    /\ InitProcs
    /\ lastOp = [op |-> "init"]

AddAccount ==
    \E e \in AcctEmails : \E t \in AcctTokens(e) :
        /\ addAccount(t, e)
        /\ lastOp' = [op |-> "addAccount", email |-> e,
                      prevActive |-> getActiveAccountEmail]
        /\ UNCHANGED <<now, order, procs>>

SetActiveAccount == \E e \in AcctEmails : setActiveAccount(e)

RemoveAccount ==
    \E e \in AcctEmails : \E ok \in BOOLEAN : removeAccount(e, ok)

RemoveAllAccounts ==
    \E failing \in SUBSET {SafeName(e) : e \in AcctEmails} :
        removeAllAccounts(failing)

UpdateTokens ==
    \E e \in AcctEmails : \E t \in AcctTokens(e) : updateTokens(e, t)

AcctTick == Tick(AcctInstants)

Next ==
    \/ AddAccount
    \/ UpdateTokens
    \/ SetActiveAccount
    \/ RemoveAccount
    \/ RemoveAllAccounts
    \/ AcctTick

Spec == Init /\ [][Next]_vars

C4_AddMakesActive ==
    lastOp.op = "addAccount"
    => /\ accountExists(lastOp.email)
       /\ getActiveAccountEmail = lastOp.email

\* a second account was added while a different account was active
C4_Witness ==
    /\ lastOp.op = "addAccount"
    /\ lastOp.prevActive # Null
    /\ lastOp.prevActive # lastOp.email
    /\ getActiveAccountEmail = lastOp.email

C19_ActivationUpdatesLastUsed ==
    /\ lastOp.op = "addAccount" =>
          metaFile[SafeName(lastOp.email)].lastUsed = ToISOString(now)
    /\ (lastOp.op = "setActiveAccount" /\ lastOp.result) =>
          metaFile[SafeName(lastOp.email)].lastUsed = ToISOString(now)
    /\ (/\ lastOp.op = "removeAccount"
        /\ lastOp.result
        /\ lastOp.email = lastOp.prevActive
        /\ getActiveAccountEmail # Null) =>
          metaFile[SafeName(getActiveAccountEmail)].lastUsed
              = ToISOString(now)

\* C32: setActiveAccount(e), removeAccount(e) and updateTokens(e, t) for an
\* account e that does not exist report failure (false; no write) and leave
\* every stored file, the account listing and the active account as they
\* were; no directory or record for e is created.
C32_MissingAccountIsNoOp ==
    [][\A e \in AcctEmails :
         (/\ lastOp'.op \in {"setActiveAccount", "removeAccount",
                             "updateTokens"}
          /\ lastOp'.email = e
          /\ ~accountExists(e))
         => /\ ~lastOp'.result
            /\ UNCHANGED storage
            /\ listAccountEmails' = listAccountEmails
            /\ getActiveAccountEmail' = getActiveAccountEmail]_vars

\* updateTokens was called for a missing account while another account is
\* active
C32_Witness ==
    /\ lastOp.op = "updateTokens"
    /\ ~lastOp.result
    /\ ~accountExists(lastOp.email)
    /\ getActiveAccountEmail # Null
    /\ accountExists(getActiveAccountEmail)

\* C34: a removeAccount(e) that returns false leaves the persisted state as
\* it was before the call: the account records and the active account are
\* unchanged, also when e is the active account and the deletion of its
\* directory fails.
C34_FailedRemoveChangesNothing ==
    [][(lastOp'.op = "removeAccount" /\ ~lastOp'.result)
       => /\ UNCHANGED storage
          /\ getActiveAccountEmail' = getActiveAccountEmail]_vars

\* ------------------------------------------------------------------------
\* Cache specification: saveCache, invalidateCache, changes of the
\* configured TTL and the clock
\* ------------------------------------------------------------------------
CacheInstants == {0, 999, 1000, 298999, 299999, 300000}

CacheEmails == {EmailA, EmailB}

CacheData == {NullData, "q1"}

\* the TTL values (seconds) a user configures
ConfiguredTTLs == {1}

DirOrder == <<SafeName(EmailA), SafeName(EmailB), SafeName(EmailCPlus)>>

InitCache ==
    /\ now = 0
    /\ order = DirOrder
    /\ InitStorage
    /\ InitProcs
    /\ lastOp = [op |-> "init"]

SaveCache == \E e \in CacheEmails : \E d \in CacheData : saveCache(e, d)

InvalidateCache ==
    \E e \in CacheEmails : \E ok \in BOOLEAN : invalidateCache(e, ok)

\* the accounts are stored by logins before any cache activity
CacheAddAccount ==
    \E e \in CacheEmails :
        /\ now = 0
        /\ cacheFile = [d \in Dirs |-> NoFile]
        /\ addAccount(StoredTokens("at0", "rt0", 3600000, e, Undefined), e)
        /\ lastOp' = [op |-> "addAccount", email |-> e,
                      prevActive |-> getActiveAccountEmail]
        /\ UNCHANGED <<now, order, procs>>

SaveConfigTTL ==
    \E t \in ConfiguredTTLs \cup {DEFAULT_CACHE_TTL} :
        saveConfig([loadConfig EXCEPT !.cacheTTL = t])

CacheTick == Tick(CacheInstants)

NextCache ==
    \/ CacheAddAccount
    \/ SaveCache
    \/ InvalidateCache
    \/ SaveConfigTTL
    \/ CacheTick

SpecCache == InitCache /\ [][NextCache]_vars

\* C9: isCacheValid(e) is true iff a cache record with non-null data exists
\* for e and the milliseconds elapsed since its cachedAt are strictly fewer
\* than ttl seconds.
C9_CacheValidIffFresh ==
    \A e \in CacheEmails :
        isCacheValid(e) <=>
            /\ cacheFile[SafeName(e)].kind = "cache"
            /\ cacheFile[SafeName(e)].data # NullData
            /\ now - cacheFile[SafeName(e)].cachedAt.iso
                   < cacheFile[SafeName(e)].ttl * 1000

\* a record saved with ttl 1 s is exactly 1000 ms old and no longer valid,
\* while a record saved with ttl 300 s is 299999 ms old and still valid
C9_Witness ==
    /\ cacheFile[SafeName(EmailA)].kind = "cache"
    /\ cacheFile[SafeName(EmailA)].data # NullData
    /\ cacheFile[SafeName(EmailA)].ttl = 1
    /\ now - cacheFile[SafeName(EmailA)].cachedAt.iso = 1000
    /\ ~isCacheValid(EmailA)
    /\ cacheFile[SafeName(EmailB)].kind = "cache"
    /\ cacheFile[SafeName(EmailB)].ttl = 300
    /\ now - cacheFile[SafeName(EmailB)].cachedAt.iso = 299999
    /\ isCacheValid(EmailB)

\* C10: saveCache(e, data) writes a record stamped with the current time and
\* the cacheTTL configured at that save, whatever record it replaces; a
\* later change of the configured TTL leaves every saved record and its
\* validity as they were.
C10_SaveStampsNowAndConfiguredTTL ==
    [][/\ lastOp'.op = "saveCache" =>
            cacheFile'[SafeName(lastOp'.email)] =
                [kind |-> "cache", cachedAt |-> ToISOString(now),
                 ttl |-> getCacheTTL, data |-> lastOp'.data]
       /\ lastOp'.op = "saveConfig" =>
            /\ cacheFile' = cacheFile
            /\ \A e \in CacheEmails : isCacheValid(e)' = isCacheValid(e)]_vars

\* a record saved at instant 1000 under a configured ttl of 1 s keeps ttl 1
\* next to a record saved under ttl 300, after the configured TTL has been
\* set to 300 again
C10_Witness ==
    /\ lastOp.op = "saveConfig"
    /\ getCacheTTL = 300
    /\ cacheFile[SafeName(EmailA)].kind = "cache"
    /\ cacheFile[SafeName(EmailA)].ttl = 1
    /\ cacheFile[SafeName(EmailA)].cachedAt.iso = 1000
    /\ cacheFile[SafeName(EmailB)].kind = "cache"
    /\ cacheFile[SafeName(EmailB)].ttl = 300

TokenInstants == {0, 1}

TokenEmails == {EmailA}

\* token sets stored by a login: one with a refresh token and a cached
\* project id, expiring exactly EXPIRY_BUFFER_MS after time 0, and one
\* without refresh token and project id, expiring one millisecond later
LoginTokens(email) ==
    {StoredTokens("at0", "rt0", EXPIRY_BUFFER_MS, email, "p1"),
     StoredTokens("at0", "", EXPIRY_BUFFER_MS + 1, email, Undefined)}

\* expires_in (seconds) of the provider's answers
ExpiresIn == {3600}

\* the record of account b@x, stored by an earlier login
OtherTokens == StoredTokens("atB", "rtB", 3600000, EmailB, "pB")

InitToken ==
    /\ now = 0
    /\ order = DirOrder
    /\ configFile = [DEFAULT_CONFIG EXCEPT !.activeAccount = EmailB]
    /\ dirs = {SafeName(EmailB)}
    /\ tokenFile = [d \in Dirs |-> IF d = SafeName(EmailB) THEN OtherTokens
                                    ELSE NoFile]
    /\ metaFile = [d \in Dirs |->
                     IF d = SafeName(EmailB)
                     THEN [kind |-> "metadata", email |-> EmailB,
                           addedAt |-> ToISOString(0),
                           lastUsed |-> ToISOString(0)]
                     ELSE NoFile]
    /\ cacheFile = [d \in Dirs |-> NoFile]
    /\ legacyFile = NoFile
    /\ InitProcs
    /\ lastOp = [op |-> "init"]

Login ==
    \E e \in TokenEmails : \E t \in LoginTokens(e) :
        /\ addAccount(t, e)
        /\ lastOp' = [op |-> "login"]
        /\ UNCHANGED <<now, order, procs>>

\* calls and managers are interchangeable: they are taken in a fixed order
NextCall(c) == \A b \in Calls : b < c => calls[b].pc # "idle"

NextManager(m) == m = "M1" \/ mgr["M1"] # NoMgr

GetTokenManagerForAccount ==
    \E m \in Managers : \E e \in TokenEmails :
        NextManager(m) /\ NewTokenManager(m, e)

GetValidAccessToken ==
    \E c \in Calls : \E m \in Managers :
        NextCall(c) /\ getValidAccessToken(c, m)

RefreshToken ==
    \E c \in Calls : \E m \in Managers : NextCall(c) /\ refreshToken(c, m)

ProviderRejects == \E c \in Calls : RefreshRejected(c)

ProviderGrants ==
    \E c \in Calls : \E x \in ExpiresIn : \E rotate \in BOOLEAN :
        RefreshGranted(c, x, rotate)

Resume == \E c \in Calls : ResumeGetValidAccessToken(c)

TokenTick == Tick(TokenInstants)

NextToken ==
    \/ Login
    \/ GetTokenManagerForAccount
    \/ GetValidAccessToken
    \/ RefreshToken
    \/ ProviderRejects
    \/ ProviderGrants
    \/ Resume
    \/ TokenTick

SpecToken == InitToken /\ [][NextToken]_vars

\* the refresh requests of account e that are in flight
InFlight(e) ==
    {c \in Calls : /\ calls[c].pc = "awaitRefresh"
                   /\ mgr[calls[c].mgr].accountEmail = e}

\* C1: for any one account at most one token-refresh request to the OAuth
\* provider is in flight at any time.
C1_OneRefreshInFlight ==
    \A e \in TokenEmails : Cardinality(InFlight(e)) <= 1

\* C8: isTokenExpired() is true iff the manager holds no tokens or
\* expiresAt <= now + 5 minutes.
C8_ExpiredIffWithinBuffer ==
    \A m \in Managers :
        mgr[m].kind = "mgr" =>
            (isTokenExpired(m) <=>
                \/ mgr[m].tokens = NoFile
                \/ mgr[m].tokens.expiresAt <= now + 5 * 60 * 1000)

\* one manager holds a token expiring exactly 5 minutes from now and reports
\* it expired, another holds one expiring a millisecond later and does not
C8_Witness ==
    /\ mgr["M1"].kind = "mgr" /\ mgr["M2"].kind = "mgr"
    /\ mgr["M1"].tokens # NoFile /\ mgr["M2"].tokens # NoFile
    /\ mgr["M1"].tokens.expiresAt = now + 300000
    /\ isTokenExpired("M1")
    /\ mgr["M2"].tokens.expiresAt = now + 300001
    /\ ~isTokenExpired("M2")

\* C13: when the provider rejects the refresh request, refreshToken() fails
\* with TokenRefreshError, and neither sending the request nor the failure
\* changes the manager's in-memory token set or any persisted record.
C13_RejectedRefreshChangesNothing ==
    [][\A c \in Calls :
        /\ (/\ calls[c].pc = "awaitRefresh"
            /\ calls'[c].pc # "awaitRefresh"
            /\ issued' = issued)
           => /\ calls'[c].pc = "done"
              /\ calls'[c].result = "TokenRefreshError"
              /\ mgr' = mgr
              /\ storage' = storage
        /\ (calls[c].pc = "idle" /\ calls'[c].pc = "awaitRefresh")
           => /\ mgr' = mgr
              /\ storage' = storage]_vars

\* the only call made, a refreshToken(), was rejected: the manager and the
\* account's record still hold the token set of the login
C13_Witness ==
    /\ calls[1].op = "refreshToken"
    /\ calls[1].result = "TokenRefreshError"
    /\ calls[2].pc = "idle"
    /\ issued = 0
    /\ mgr[calls[1].mgr].tokens = tokenFile[SafeName(EmailA)]
    /\ tokenFile[SafeName(EmailA)].accessToken = "at0"
    /\ tokenFile[SafeName(EmailA)].refreshToken = "rt0"

\* C14: a successful refresh persists, under the account the manager was
\* created for, a token set made of the new access token and new expiry,
\* the unchanged email and projectId, and the refresh token of the response
\* or else the previous one; the manager holds the same set, and no other
\* account's record, the legacy record or the config is written.
C14_RefreshPersistsNewTokenSet ==
    [][\A c \in Calls :
        (/\ calls[c].pc = "awaitRefresh"
         /\ calls'[c].pc # "awaitRefresh"
         /\ issued' = issued + 1)
        => LET m == calls[c].mgr
               old == mgr[m].tokens
               d == SafeName(mgr[m].accountEmail)
           IN
           /\ tokenFile'[d].kind = "tokens"
           /\ tokenFile'[d].accessToken = AccessNames[issued + 1]
           /\ tokenFile'[d].accessToken # old.accessToken
           /\ tokenFile'[d].expiresAt \in {now + x * 1000 : x \in ExpiresIn}
           /\ tokenFile'[d].email = old.email
           /\ tokenFile'[d].projectId = old.projectId
           /\ tokenFile'[d].refreshToken
                 \in {old.refreshToken, RotatedNames[issued + 1]}
           /\ mgr'[m].tokens = tokenFile'[d]
           /\ mgr'[m].accountEmail = mgr[m].accountEmail
           /\ \A x \in Dirs \ {d} : tokenFile'[x] = tokenFile[x]
           /\ legacyFile' = legacyFile
           /\ configFile' = configFile]_vars

\* a refreshToken() succeeded without a new refresh token in the response:
\* the record of a@x holds the new access token with the old refresh token,
\* email and projectId, and the record of b@x is as it was
C14_Witness ==
    /\ calls[1].op = "refreshToken"
    /\ calls[1].result = "returned"
    /\ calls[2].pc = "idle"
    /\ tokenFile[SafeName(EmailA)].accessToken = "at1"
    /\ tokenFile[SafeName(EmailA)].refreshToken = "rt0"
    /\ tokenFile[SafeName(EmailA)].email = EmailA
    /\ tokenFile[SafeName(EmailA)].projectId = "p1"
    /\ tokenFile[SafeName(EmailA)].expiresAt = now + 3600 * 1000
    /\ mgr[calls[1].mgr].tokens = tokenFile[SafeName(EmailA)]
    /\ tokenFile[SafeName(EmailB)] = OtherTokens

\* C15: getValidAccessToken() on a manager without tokens, and
\* refreshToken() on a manager without tokens or whose token set has no
\* refresh token, fail with NotLoggedIn at once: no refresh request is
\* sent and nothing is written; a request that is sent always carries a
\* refresh token.
C15_NotLoggedInWithoutRequest ==
    [][\A c \in Calls :
        (calls[c].pc = "idle" /\ calls'[c].pc # "idle")
        => /\ (\/ mgr[calls'[c].mgr].tokens = NoFile
               \/ /\ calls'[c].op = "refreshToken"
                  /\ mgr[calls'[c].mgr].tokens.refreshToken = "")
              => /\ calls'[c].pc = "done"
                 /\ calls'[c].result = "NotLoggedIn"
                 /\ calls'[c].sent = ""
                 /\ issued' = issued
                 /\ mgr' = mgr
                 /\ storage' = storage
           /\ calls'[c].pc = "awaitRefresh" => calls'[c].sent # ""]_vars

\* getValidAccessToken() failed on a manager without tokens and
\* refreshToken() failed on a manager whose tokens have no refresh token
C15_Witness ==
    /\ calls[1].op = "getValidAccessToken"
    /\ calls[1].result = "NotLoggedIn"
    /\ mgr[calls[1].mgr].tokens = NoFile
    /\ calls[2].op = "refreshToken"
    /\ calls[2].result = "NotLoggedIn"
    /\ mgr[calls[2].mgr].tokens # NoFile
    /\ mgr[calls[2].mgr].tokens.refreshToken = ""
    /\ issued = 0

\* C16: once a refresh attempt of a manager's account has failed, the
\* account's status is 'invalid' and a later getValidAccessToken() on that
\* manager sends no further refresh request.
C16_NoRetryAfterFailedRefresh ==
    [][\A c \in Calls :
        /\ (calls[c].pc = "awaitRefresh"
            /\ calls'[c].result = "TokenRefreshError")
           => getAccountStatus(mgr[calls[c].mgr].accountEmail)' = "invalid"
        /\ \A b \in Calls :
             (/\ calls[b].result = "TokenRefreshError"
              /\ calls[c].pc = "idle"
              /\ calls'[c].op = "getValidAccessToken"
              /\ calls'[c].mgr = calls[b].mgr)
             => calls'[c].pc # "awaitRefresh"]_vars

\* C35: getValidAccessToken() issues a refresh request iff the held token
\* is expired under the 5-minute buffer; with an unexpired token it returns
\* the held access token, sends no request and writes nothing; after a
\* successful refresh it returns a newly issued token, which is the access
\* token of the persisted record of the manager's account at that moment.
C35_RefreshIffExpired ==
    [][\A c \in Calls :
        /\ (/\ calls[c].pc = "idle"
            /\ calls'[c].op = "getValidAccessToken"
            /\ mgr[calls'[c].mgr].tokens # NoFile)
           => /\ calls'[c].pc = "awaitRefresh"
                    <=> isTokenExpired(calls'[c].mgr)
              /\ ~isTokenExpired(calls'[c].mgr)
                    => /\ calls'[c].pc = "done"
                       /\ calls'[c].result = "returned"
                       /\ calls'[c].value
                             = mgr[calls'[c].mgr].tokens.accessToken
                       /\ issued' = issued
                       /\ storage' = storage
                       /\ mgr' = mgr
        /\ (calls[c].pc = "resume" /\ calls'[c].pc = "done")
           => /\ calls'[c].result = "returned"
              /\ \E i \in 1..issued : calls'[c].value = AccessNames[i]
              /\ calls'[c].value
                    = tokenFile[SafeName(mgr[calls[c].mgr].accountEmail)]
                          .accessToken]_vars

\* ------------------------------------------------------------------------
\* Specification SpecProject: several token managers of one logged-in
\* account that refresh the token and set the project id
\* ------------------------------------------------------------------------
ProjectIds == {"p2"}

InitProject ==
    /\ now = 0
    /\ order = DirOrder
    /\ configFile = [DEFAULT_CONFIG EXCEPT !.activeAccount = EmailA]
    /\ dirs = {SafeName(EmailA)}
    /\ tokenFile = [d \in Dirs |->
                      IF d = SafeName(EmailA)
                      THEN StoredTokens("at0", "rt0", EXPIRY_BUFFER_MS,
                                        EmailA, "p1")
                      ELSE NoFile]
    /\ metaFile = [d \in Dirs |->
                     IF d = SafeName(EmailA)
                     THEN [kind |-> "metadata", email |-> EmailA,
                           addedAt |-> ToISOString(0),
                           lastUsed |-> ToISOString(0)]
                     ELSE NoFile]
    /\ cacheFile = [d \in Dirs |-> NoFile]
    /\ legacyFile = NoFile
    /\ InitProcs
    /\ lastOp = [op |-> "init"]

\* a manager for the account, or the manager of the active account
ProjectManager ==
    \E m \in Managers : \E e \in {EmailA, Null} :
        NextManager(m) /\ NewTokenManager(m, e)

SetProjectId ==
    \E m \in Managers : \E p \in ProjectIds : setProjectId(m, p)

ProjectRefresh ==
    \E c \in Calls : \E m \in Managers : NextCall(c) /\ refreshToken(c, m)

ProjectGrants ==
    \E c \in Calls : \E x \in ExpiresIn : \E rotate \in BOOLEAN :
        RefreshGranted(c, x, rotate)

ProjectRejects == \E c \in Calls : RefreshRejected(c)

ProjectTick == Tick(TokenInstants)

NextProject ==
    \/ ProjectManager
    \/ SetProjectId
    \/ ProjectRefresh
    \/ ProjectGrants
    \/ ProjectRejects
    \/ ProjectTick

SpecProject == InitProject /\ [][NextProject]_vars

\* the position of an access token in the order of issue; the token of the
\* login is the oldest
Age(accessToken) ==
    IF \E i \in 1..Len(AccessNames) : AccessNames[i] = accessToken
    THEN CHOOSE i \in 1..Len(AccessNames) : AccessNames[i] = accessToken
    ELSE 0

\* manager m writes the token record in this step: by setProjectId or by the
\* persist step of one of its refreshToken calls
Writes(m) ==
    \/ \E p \in ProjectIds : setProjectId(m, p)
    \/ \E c \in Calls : /\ calls[c].pc = "awaitRefresh"
                         /\ calls[c].mgr = m
                         /\ issued' = issued + 1

\* C36: a write by one TokenManager (setProjectId, or the persist step of
\* refreshToken) never replaces a token record that another TokenManager of
\* the same account persisted after the first loaded its tokens, and the
\* persisted tokens of an account never revert to an older token set.
C36_NoStaleOverwrite ==
    [][/\ \A m \in Managers :
            (/\ mgr[m].kind = "mgr"
             /\ mgr[m].tokens # NoFile
             /\ Writes(m)
             /\ tokenFile' # tokenFile)
            => tokenFile[SafeName(mgr[m].accountEmail)] = mgr[m].tokens
       /\ \A d \in Dirs :
            (tokenFile[d] # NoFile /\ tokenFile'[d] # NoFile)
            => Age(tokenFile'[d].accessToken)
                  >= Age(tokenFile[d].accessToken)]_vars

\* ------------------------------------------------------------------------
\* OAuth flow specification: earlier logins, one startOAuthFlow execution,
\* the requests reaching its listener, the provider's answers, the timer
\* ------------------------------------------------------------------------
OAuthInstants == {0, OAUTH_TIMEOUT_MS}

OAuthEmails == {EmailA, EmailB}

Paths == {"/callback", "/favicon.ico"}

ErrorParams == {"", "access_denied"}

Codes == {"", "code1"}

ReturnedStates == {"s1", "forged"}

InitOAuth ==
    /\ now = 0
    /\ order = DirOrder
    /\ InitStorage
    /\ InitProcs
    /\ lastOp = [op |-> "init"]

\* an account stored by an earlier login, before the flow starts
EarlierLogin ==
    \E e \in OAuthEmails :
        /\ flow.pc = "idle"
        /\ addAccount(StoredTokens("at0", "rt0", 3600000, e, Undefined), e)
        /\ lastOp' = [op |-> "login"]
        /\ UNCHANGED <<now, order, procs>>

StartOAuthFlow == startOAuthFlow

NextReq(q) == \A b \in Reqs : b < q => reqs[b].pc # "idle"

CallbackArrives ==
    \E q \in Reqs : \E p \in Paths : \E err \in ErrorParams :
        \E code \in Codes : \E st \in ReturnedStates :
            NextReq(q) /\ Callback(q, p, err, code, st)

ExchangeRejected == \E q \in Reqs : ExchangeFails(q)

ExchangeGranted ==
    \E q \in Reqs : \E rt \in {"", "rt1"} : ExchangeSucceeds(q, rt, 3600)

UserInfo == \E q \in Reqs : \E e \in OAuthEmails \cup {Null} :
    UserInfoReturns(q, e)

ProjectId == \E q \in Reqs : \E p \in {Undefined, "p1"} :
    ProjectIdReturns(q, p)

TimerFires == Timeout

OAuthTick == Tick(OAuthInstants)

NextOAuth ==
    \/ EarlierLogin
    \/ StartOAuthFlow
    \/ CallbackArrives
    \/ ExchangeRejected
    \/ ExchangeGranted
    \/ UserInfo
    \/ ProjectId
    \/ TimerFires
    \/ OAuthTick

SpecOAuth == InitOAuth /\ [][NextOAuth]_vars

\* C2: in every execution of startOAuthFlow the callback listener is closed
\* exactly once: server.close() is never called a second time, and it has
\* been called once the flow has reported its result.
C2_ListenerClosedExactlyOnce ==
    /\ flow.closeCalls <= 1
    /\ flow.result # NoResult => flow.closeCalls = 1

\* C5 (as claimed): when an OAuth login completes successfully while some
\* account is active, that account stays the active account.
C5_LoginKeepsActiveAccount ==
    (/\ lastOp.op = "oauthLogin"
     /\ lastOp.email # Null
     /\ lastOp.prevActive # Null)
    => getActiveAccountEmail = lastOp.prevActive

\* C5 (amended): when an OAuth login completes successfully for an account
\* e, account e exists and e is the active account, whether or not another
\* account was active beforehand.
C5_LoginMakesActive ==
    (lastOp.op = "oauthLogin" /\ lastOp.email # Null)
    => /\ accountExists(lastOp.email)
       /\ getActiveAccountEmail = lastOp.email

\* a login completed for an account while a different account was active
C5_Witness ==
    /\ lastOp.op = "oauthLogin"
    /\ lastOp.email # Null
    /\ lastOp.prevActive # Null
    /\ lastOp.prevActive # lastOp.email
    /\ flow.result = OAuthResult(TRUE, lastOp.email, "")
    /\ getActiveAccountEmail = lastOp.email

\* C25: a request enters the token exchange only from a callback without
\* error parameter whose code is present and whose state value equals the
\* state generated for this flow; a callback that reaches the waiting flow
\* with a missing code or another state value ends the flow with a failure
\* result, starts no token exchange and leaves the stored accounts as
\* they are.
C25_ExchangeOnlyAfterStateCheck ==
    [][\A q \in Reqs :
         /\ (reqs[q].pc # "exchanging" /\ reqs'[q].pc = "exchanging")
               => \E err \in ErrorParams : \E code \in Codes :
                    \E st \in ReturnedStates :
                      /\ Callback(q, "/callback", err, code, st)
                      /\ code # ""
                      /\ st = flow.state
         /\ issued' # issued =>
               \E r \in Reqs : reqs[r].pc \in {"exchanging"}
         /\ \A err \in ErrorParams : \A code \in Codes :
               \A st \in ReturnedStates :
                 (/\ Callback(q, "/callback", err, code, st)
                  /\ ~flow.resolved
                  /\ (code = "" \/ st # flow.state))
                 => /\ reqs'[q].pc = "done"
                    /\ flow'.resolved
                    /\ flow'.result.kind = "result"
                    /\ ~flow'.result.success
                    /\ issued' = issued
                    /\ UNCHANGED storage]_vars

\* a callback with a forged state value has ended the flow: no token was
\* requested and no account is stored
C25_Witness ==
    /\ flow.result = OAuthResult(FALSE, Null, "Invalid callback")
    /\ \E q \in Reqs : reqs[q].pc = "done"
    /\ issued = 0
    /\ dirs = {}

\* C26: whenever startOAuthFlow reports success, the token set obtained in
\* the flow is stored under the logged-in account, which exists afterwards;
\* a failed fetch of the project identifier only leaves projectId out of
\* the stored record.
C26_SuccessMeansPersisted ==
    [][\A q \in Reqs : \A pid \in {Undefined, "p1"} :
         (/\ ProjectIdReturns(q, pid)
          /\ flow.result = NoResult
          /\ flow'.result.success)
         => \E e \in OAuthEmails :
              /\ e = reqs[q].email
              /\ flow'.result.email = e
              /\ accountExists(e)'
              /\ \E t \in {StoredTokens(reqs[q].accessToken,
                                         reqs[q].refreshToken,
                                         now + reqs[q].expiresIn * 1000,
                                         e, pid)} :
                    loadAccountTokens(e)' = t]_vars

\* C30: a flow that resolves with failure has added or modified no account
\* and changes no stored file once it has resolved, also when the timer
\* fires while the token exchange of a callback is still pending.
C30_FailedFlowPersistsNothing ==
    [][(/\ flow.pc # "idle"
        /\ flow'.result.kind = "result"
        /\ ~flow'.result.success)
       => UNCHANGED storage]_vars

\* ------------------------------------------------------------------------
\* OAuth flow under fair scheduling: the clock advances and a timer that is
\* due fires (setTimeout of the event loop); nothing is assumed about the
\* browser or the provider, whose requests and answers may never come
\* ------------------------------------------------------------------------
OAuthLiveInstants == {0, OAUTH_TIMEOUT_MS, 2 * OAUTH_TIMEOUT_MS}

OAuthLiveTick == Tick(OAuthLiveInstants)

\* a flow is started while the modelled clock can still reach its deadline
OAuthLiveStart ==
    /\ \E t \in OAuthLiveInstants : t >= now + OAUTH_TIMEOUT_MS
    /\ startOAuthFlow

NextOAuthLive ==
    \/ OAuthLiveStart
    \/ CallbackArrives
    \/ ExchangeRejected
    \/ ExchangeGranted
    \/ UserInfo
    \/ ProjectId
    \/ TimerFires
    \/ OAuthLiveTick

SpecOAuthLive ==
    /\ InitOAuth
    /\ [][NextOAuthLive]_vars
    /\ WF_vars(OAuthLiveTick)
    /\ WF_vars(TimerFires)

\* C31: every started flow eventually resolves; a result once reported is
\* never replaced; a request to a path other than /callback leaves the flow
\* waiting, and the timer resolves a flow that is still unresolved when the
\* 2 minutes have elapsed with the failure 'Login timed out'.
C31_FlowResolvesOnce ==
    /\ (flow.pc = "waiting") ~> (flow.result # NoResult)
    /\ [][flow.result # NoResult => flow'.result = flow.result]_vars
    /\ [][(Timeout /\ ~flow.resolved)
            => flow'.result = OAuthResult(FALSE, Null, "Login timed out")]_vars
    /\ [][\A q \in Reqs : \A p \in Paths \ {"/callback"} :
            \A err \in ErrorParams : \A code \in Codes :
              \A st \in ReturnedStates :
                Callback(q, p, err, code, st) => UNCHANGED flow]_vars
    /\ [](flow.result # NoResult => flow.resolved)

\* requests have been handled, none of them resolved the flow, and the
\* timer has ended it
C31_Witness ==
    /\ flow.result = OAuthResult(FALSE, Null, "Login timed out")
    /\ flow.timerFired
    /\ flow.closeCalls = 1
    /\ \A q \in Reqs : reqs[q].pc = "done"
    /\ now >= flow.startedAt + OAUTH_TIMEOUT_MS

\* ------------------------------------------------------------------------
\* Account status specification: accounts stored with any combination of
\* expiry and refresh token, removed again, and the clock
\* ------------------------------------------------------------------------
StatusInstants == {0, 1000, 1001, 2000}

StatusEmails == {EmailA, EmailB}

\* expiry instants: soon in the past, exactly EXPIRY_BUFFER_MS after
\* instant 1000, and an hour ahead
StatusTokens(email) ==
    {StoredTokens("at0", rt, exp, email, Undefined) :
        rt \in {"", "rt0"},
        exp \in {1000, EXPIRY_BUFFER_MS + 1000, 3600000}}

InitStatus ==
    /\ now = 0
    /\ order = DirOrder
    /\ InitStorage
    /\ InitProcs
    /\ lastOp = [op |-> "init"]

StatusAdd ==
    \E e \in StatusEmails : \E t \in StatusTokens(e) :
        /\ addAccount(t, e)
        /\ lastOp' = [op |-> "addAccount", email |-> e,
                      prevActive |-> getActiveAccountEmail]
        /\ UNCHANGED <<now, order, procs>>

StatusRemove == \E e \in StatusEmails : removeAccount(e, TRUE)

StatusTick == Tick(StatusInstants)

NextStatus ==
    \/ StatusAdd
    \/ StatusRemove
    \/ StatusTick

SpecStatus == InitStatus /\ [][NextStatus]_vars

\* C6: getAccountStatus(e) is 'expired' for an account whose expiry lies in
\* the past and whose refresh token is present, 'invalid' for such an
\* account without refresh token and for an account that does not exist,
\* and 'valid' for an existing account whose expiry is more than 5 minutes
\* in the future.
C6_StatusScenario ==
    \A e \in StatusEmails :
        LET t == tokenFile[SafeName(e)] IN
        /\ ~accountExists(e) => getAccountStatus(e) = "invalid"
        /\ (accountExists(e) /\ t.expiresAt < now /\ t.refreshToken # "")
               => getAccountStatus(e) = "expired"
        /\ (accountExists(e) /\ t.expiresAt < now /\ t.refreshToken = "")
               => getAccountStatus(e) = "invalid"
        /\ (accountExists(e) /\ t.expiresAt > now + 5 * 60 * 1000)
               => getAccountStatus(e) = "valid"

\* one account is past its expiry with a refresh token (expired), the other
\* is past its expiry without one (invalid)
C6_Witness ==
    /\ accountExists(EmailA) /\ accountExists(EmailB)
    /\ tokenFile[SafeName(EmailA)].expiresAt < now
    /\ tokenFile[SafeName(EmailA)].refreshToken # ""
    /\ getAccountStatus(EmailA) = "expired"
    /\ tokenFile[SafeName(EmailB)].expiresAt < now
    /\ tokenFile[SafeName(EmailB)].refreshToken = ""
    /\ getAccountStatus(EmailB) = "invalid"

\* C7 (as claimed): an account without token record or without refresh
\* token has status 'invalid', whether or not its access token is expired.
C7_NoRefreshTokenIsInvalid ==
    \A e \in StatusEmails :
        (~accountExists(e) \/ tokenFile[SafeName(e)].refreshToken = "")
            => getAccountStatus(e) = "invalid"

\* C7 (amended): the status is 'invalid' iff the account has no token
\* record, or its token is expired under the 5-minute buffer and the record
\* carries no refresh token; 'expired' is reported only for accounts that
\* hold a refresh token; an unexpired token is 'valid' with or without one.
C7_InvalidIffUnusable ==
    \A e \in StatusEmails :
        LET t == tokenFile[SafeName(e)] IN
        /\ getAccountStatus(e) = "invalid" <=>
              \/ ~accountExists(e)
              \/ /\ t.expiresAt <= now + 5 * 60 * 1000
                 /\ t.refreshToken = ""
        /\ getAccountStatus(e) = "expired" => t.refreshToken # ""
        /\ (accountExists(e) /\ t.expiresAt > now + 5 * 60 * 1000)
              => getAccountStatus(e) = "valid"

\* an account without refresh token sits exactly on the 5-minute boundary
\* and is invalid, another without refresh token is unexpired and valid
C7_Witness ==
    /\ accountExists(EmailA) /\ accountExists(EmailB)
    /\ tokenFile[SafeName(EmailA)].refreshToken = ""
    /\ tokenFile[SafeName(EmailA)].expiresAt = now + 300000
    /\ getAccountStatus(EmailA) = "invalid"
    /\ tokenFile[SafeName(EmailB)].refreshToken = ""
    /\ tokenFile[SafeName(EmailB)].expiresAt > now + 300000
    /\ getAccountStatus(EmailB) = "valid"

\* ------------------------------------------------------------------------
\* Token store specification: the legacy single-account record next to the
\* multi-account store, written through google/storage.ts and the account
\* manager
\* ------------------------------------------------------------------------
LegacyEmails == {EmailA, EmailB}

\* token sets handed to saveTokens: without email (legacy layout) and with
LegacyTokens ==
    {StoredTokens("atL", "rtL", 3600000, Null, Undefined)}
    \cup {StoredTokens("at0", "rt0", 3600000, e, Undefined) :
              e \in LegacyEmails}

InitLegacy ==
    /\ now = 0
    /\ order = DirOrder
    /\ InitStorage
    /\ InitProcs
    /\ lastOp = [op |-> "init"]

SaveTokens ==
    \E t \in LegacyTokens :
        /\ saveTokens(t)
        /\ lastOp' = [op |-> "saveTokens", email |-> t.email]
        /\ UNCHANGED <<now, order, procs>>

DeleteTokens == \E ok \in BOOLEAN : deleteTokens(ok)

LegacyAddAccount ==
    \E e \in LegacyEmails :
        /\ addAccount(StoredTokens("at1", "rt1", 3600000, e, Undefined), e)
        /\ lastOp' = [op |-> "addAccount", email |-> e,
                      prevActive |-> getActiveAccountEmail]
        /\ UNCHANGED <<now, order, procs>>

LegacySetActive == \E e \in LegacyEmails : setActiveAccount(e)

LegacyRemove == \E e \in LegacyEmails : \E ok \in BOOLEAN : removeAccount(e, ok)

LegacyRemoveAll ==
    \E failing \in SUBSET {SafeName(e) : e \in LegacyEmails} :
        removeAllAccounts(failing)

NextLegacy ==
    \/ SaveTokens
    \/ DeleteTokens
    \/ LegacyAddAccount
    \/ LegacySetActive
    \/ LegacyRemove
    \/ LegacyRemoveAll

SpecLegacy == InitLegacy /\ [][NextLegacy]_vars

\* C17: whenever an active account email is configured, loadTokens() returns
\* what the active account's store holds and never the legacy record,
\* hasTokens() reports whether the active account exists, and deleteTokens()
\* leaves the legacy record alone.
C17_LegacyOnlyWithoutActiveAccount ==
    /\ getActiveAccountEmail # Null =>
          /\ loadTokens = loadAccountTokens(getActiveAccountEmail)
          /\ hasTokens = accountExists(getActiveAccountEmail)
    /\ (lastOp.op = "deleteTokens" /\ lastOp.prevActive # Null) =>
          lastOp.target # "legacy"

\* C29: after any sequence of addAccount, setActiveAccount, removeAccount,
\* removeAllAccounts, saveTokens and deleteTokens the active account email
\* is null or the email of an account that exists and is listed, and
\* getAccountSummaries flags at most one account as active, exactly one
\* when the active email is not null.
C29_ActiveAccountExists ==
    LET active == getActiveAccountEmail
        flagged == {i \in DOMAIN getAccountSummaries :
                       getAccountSummaries[i].isActive}
    IN
    /\ Cardinality(flagged) <= 1
    /\ active # Null =>
          /\ accountExists(active)
          /\ \E i \in DOMAIN listAccountEmails : listAccountEmails[i] = active
          /\ Cardinality(flagged) = 1

\* ------------------------------------------------------------------------
\* Damaged store specification: files of the config directory go missing,
\* become unparsable or are partial, while the account manager is used
\* ------------------------------------------------------------------------
FaultEmails == {EmailA, EmailB}

\* config.json files that lack fields
PartialConfigs ==
    {[kind |-> "config"],
     [kind |-> "config", activeAccount |-> EmailA],
     [kind |-> "config", version |-> "1.0", cacheTTL |-> 1]}

InitFaults ==
    /\ now = 0
    /\ order = DirOrder
    /\ InitStorage
    /\ InitProcs
    /\ lastOp = [op |-> "init"]

FaultAddAccount ==
    \E e \in FaultEmails :
        /\ addAccount(StoredTokens("at0", "rt0", 3600000, e, Undefined), e)
        /\ lastOp' = [op |-> "addAccount", email |-> e,
                      prevActive |-> getActiveAccountEmail]
        /\ UNCHANGED <<now, order, procs>>

FaultSaveCache == \E e \in FaultEmails : saveCache(e, "q1")

\* config.json is replaced by a partial file
WritePartialConfig == \E c \in PartialConfigs : saveConfig(c)

\* file is "config", "tokens", "metadata" or "cache"; content is Malformed
\* (the file becomes unparsable) or NoFile (the file goes missing)
DamageFile(file, d, content) ==
    /\ file = "config" =>
          /\ configFile # NoFile
          /\ configFile' = content
          /\ UNCHANGED <<tokenFile, metaFile, cacheFile>>
    /\ file = "tokens" =>
          /\ tokenFile[d] # NoFile
          /\ tokenFile' = [tokenFile EXCEPT ![d] = content]
          /\ UNCHANGED <<configFile, metaFile, cacheFile>>
    /\ file = "metadata" =>
          /\ metaFile[d] # NoFile
          /\ metaFile' = [metaFile EXCEPT ![d] = content]
          /\ UNCHANGED <<configFile, tokenFile, cacheFile>>
    /\ file = "cache" =>
          /\ cacheFile[d] # NoFile
          /\ cacheFile' = [cacheFile EXCEPT ![d] = content]
          /\ UNCHANGED <<configFile, tokenFile, metaFile>>
    /\ UNCHANGED <<dirs, legacyFile, now, order, procs>>
    /\ lastOp' = [op |-> "damage"]

FileDamaged ==
    \E file \in {"config", "tokens", "metadata", "cache"} :
        \E e \in FaultEmails : \E content \in {Malformed, NoFile} :
            DamageFile(file, SafeName(e), content)

FaultSetActive == \E e \in FaultEmails : setActiveAccount(e)

FaultRemove == \E e \in FaultEmails : removeAccount(e, TRUE)

NextFaults ==
    \/ FaultAddAccount
    \/ FaultSaveCache
    \/ WritePartialConfig
    \/ FileDamaged
    \/ FaultSetActive
    \/ FaultRemove

SpecFaults == InitFaults /\ [][NextFaults]_vars

\* the file is missing or unparsable
Unreadable(f) == f = NoFile \/ f = Malformed

\* C18: with a missing or unparsable file loadConfig returns the defaults
\* (activeAccount null, cacheTTL 300), a partial config file is completed
\* with the defaults, and loadAccountTokens, loadAccountMetadata and
\* loadAccountCache return null; status, summaries, switch and remove then
\* still return a result: status 'invalid' for an unreadable token file,
\* one summary per listed account, and true from switch and remove for an
\* account whose token file exists.
C18_DamagedFilesAreTolerated ==
    /\ Unreadable(configFile) =>
          /\ loadConfig = DEFAULT_CONFIG
          /\ getActiveAccountEmail = Null
          /\ getCacheTTL = 300
    /\ configFile.kind = "config" =>
          /\ loadConfig.version = IF "version" \in DOMAIN configFile
                                  THEN configFile.version ELSE "2.0"
          /\ getActiveAccountEmail =
                IF "activeAccount" \in DOMAIN configFile
                THEN configFile.activeAccount ELSE Null
          /\ getCacheTTL = IF "cacheTTL" \in DOMAIN configFile
                           THEN configFile.cacheTTL ELSE 300
    /\ \A e \in FaultEmails :
          /\ Unreadable(tokenFile[SafeName(e)]) =>
                /\ loadAccountTokens(e) = NoFile
                /\ getAccountStatus(e) = "invalid"
          /\ Unreadable(metaFile[SafeName(e)]) =>
                loadAccountMetadata(e) = NoFile
          /\ Unreadable(cacheFile[SafeName(e)]) =>
                /\ loadAccountCache(e) = NoFile
                /\ loadCache(e) = NullData
                /\ getCacheAge(e) = NoFile
                /\ ~isCacheValid(e)
    /\ DOMAIN getAccountSummaries = DOMAIN listAccountEmails
    /\ \A i \in DOMAIN getAccountSummaries :
          LET sum == getAccountSummaries[i] IN
          /\ sum.email = listAccountEmails[i]
          /\ sum.status \in {"valid", "expired", "invalid"}
          /\ Unreadable(tokenFile[sum.email]) => sum.status = "invalid"
          /\ Unreadable(metaFile[sum.email]) => sum.lastUsed = Null
          /\ Unreadable(cacheFile[sum.email]) => sum.cachedCredits = NullData
    /\ lastOp.op = "setActiveAccount" =>
          /\ lastOp.result = (tokenFile[SafeName(lastOp.email)] # NoFile)
          /\ lastOp.result => getActiveAccountEmail = lastOp.email
    /\ lastOp.op = "removeAccount" =>
          /\ lastOp.result \in BOOLEAN
          /\ ~accountExists(lastOp.email)

\* the switch to an account with unparsable metadata succeeded while the
\* other account, with unparsable tokens and cache, is still listed
C18_Witness ==
    /\ lastOp.op = "setActiveAccount"
    /\ lastOp.result
    /\ lastOp.email = EmailB
    /\ metaFile[SafeName(EmailB)] = Malformed
    /\ tokenFile[SafeName(EmailA)] = Malformed
    /\ cacheFile[SafeName(EmailA)] = Malformed
    /\ metaFile[SafeName(EmailA)] = NoFile
    /\ Len(getAccountSummaries) = 2
    /\ getActiveAccountEmail = EmailB

\* ------------------------------------------------------------------------
\* Refresh-all specification: accounts stored by logins, then one run of
\* `accounts refresh --all` with the provider's answers
\* ------------------------------------------------------------------------
RefreshAllEmails == {EmailA, EmailB, EmailCPlus}

\* token sets of the stored accounts: expired with and without refresh
\* token, and still valid
RefreshAllTokens(email) ==
    {StoredTokens("at0", "rt0", 0, email, Undefined),
     StoredTokens("at0", "", 0, email, Undefined),
     StoredTokens("at0", "rt0", 3600000, email, Undefined)}

InitRefreshAll ==
    /\ now = 0
    /\ order = DirOrder
    /\ InitStorage
    /\ InitProcs
    /\ lastOp = [op |-> "init"]

RefreshAllLogin ==
    \E e \in RefreshAllEmails : \E t \in RefreshAllTokens(e) :
        /\ cmd.pc = "idle"
        /\ ~accountExists(e)
        /\ addAccount(t, e)
        /\ lastOp' = [op |-> "login"]
        /\ UNCHANGED <<now, order, procs>>

RefreshAllStart == refreshAccountCommand

RefreshAllProviderGrants ==
    \E x \in ExpiresIn : \E rotate \in BOOLEAN : RefreshAllGranted(x, rotate)

NextRefreshAll ==
    \/ RefreshAllLogin
    \/ RefreshAllStart
    \/ RefreshAllIterate
    \/ RefreshAllRejected
    \/ RefreshAllProviderGrants

SpecRefreshAll == InitRefreshAll /\ [][NextRefreshAll]_vars

\* C20: refresh-all processes the listed accounts one by one, each exactly
\* once and whatever the outcome of the others: a failure is counted for
\* that account, changes no token record and is followed by the next
\* account; a refresh writes only the record of its own account; and when
\* the command ends every listed account has been processed and
\* successCount + failCount is the number of accounts.
C20_RefreshAllProcessesEveryAccount ==
    [][/\ cmd'.successCount + cmd'.failCount = Len(cmd'.log)
       /\ \A k \in DOMAIN cmd'.log : cmd'.log[k].email = cmd'.emails[k]
       /\ cmd'.failCount =
            Cardinality({k \in DOMAIN cmd'.log :
                            cmd'.log[k].outcome = "failed"})
       /\ cmd'.pc = "done" => Len(cmd'.log) = Len(cmd'.emails)
       /\ cmd'.pc \in {"loop", "await"} =>
            /\ Len(cmd'.log) = cmd'.i - 1
            /\ cmd'.i <= Len(cmd'.emails)
       /\ cmd'.failCount # cmd.failCount => tokenFile' = tokenFile
       /\ cmd.pc = "await" =>
            \A d \in Dirs \ {SafeName(cmd.emails[cmd.i])} :
                tokenFile'[d] = tokenFile[d]]_vars

\* the command has ended over three accounts: the first failed at the
\* provider, the second was refreshed, the third had no refresh token
C20_Witness ==
    /\ cmd.pc = "done"
    /\ Len(cmd.emails) = 3
    /\ cmd.log[1].outcome = "failed"
    /\ tokenFile[cmd.emails[1]].refreshToken = "rt0"
    /\ cmd.log[2].outcome = "refreshed"
    /\ tokenFile[cmd.emails[2]].accessToken = "at1"
    /\ cmd.log[3].outcome = "failed"
    /\ tokenFile[cmd.emails[3]].refreshToken = ""
    /\ cmd.successCount = 1
    /\ cmd.failCount = 2

\* ------------------------------------------------------------------------
\* Specification SpecConfig: callers of accounts/config.ts that load, change
\* and save the global config while the file is written, damaged or removed
\* ------------------------------------------------------------------------
ConfigEmails == {EmailA, EmailB}

ConfigTTLs == {60}

\* a caller takes config = loadConfig(), assigns config.preferences.cacheTTL
\* and, when save, passes config to saveConfig.  Without a readable file
\* config.preferences is the preferences object of DEFAULT_CONFIG itself
EditPreferences(ttl, save) ==
    /\ defaultPreferences' =
         IF configFile.kind = "config" THEN defaultPreferences
         ELSE [cacheTTL |-> ttl]
    /\ configFile' =
         IF save THEN [loadConfig EXCEPT !.cacheTTL = ttl] ELSE configFile
    /\ UNCHANGED <<dirs, tokenFile, metaFile, cacheFile, legacyFile, now,
                   order, mgr, calls, issued, flow, reqs, cmd, probe, crontab>>
    /\ lastOp' = [op |-> "editPreferences", ttl |-> ttl, save |-> save]

\* a caller assigns config.activeAccount of a loaded config and drops it: the
\* object returned by loadConfig is a copy at the top level
EditActiveAccount(email) ==
    /\ UNCHANGED <<storage, now, order, procs>>
    /\ lastOp' = [op |-> "editActiveAccount", email |-> email]

\* setActiveAccountEmail(email): loadConfig, assign activeAccount, saveConfig
SetActiveAccountEmail(email) ==
    /\ configFile' = setActiveAccountEmail(email)
    /\ UNCHANGED <<dirs, tokenFile, metaFile, cacheFile, legacyFile, now,
                   order, procs>>
    /\ lastOp' = [op |-> "setActiveAccountEmail", email |-> email,
                  prevActive |-> getActiveAccountEmail]

ConfigEditPreferences ==
    \E ttl \in ConfigTTLs : \E save \in BOOLEAN : EditPreferences(ttl, save)

ConfigEditActiveAccount ==
    \E e \in ConfigEmails : EditActiveAccount(e)

ConfigSetActiveAccountEmail ==
    \E e \in ConfigEmails \cup {Null} : SetActiveAccountEmail(e)

ConfigDamaged ==
    \E content \in {Malformed, NoFile} :
        DamageFile("config", SafeName(EmailA), content)

NextConfig ==
    \/ ConfigEditPreferences
    \/ ConfigEditActiveAccount
    \/ ConfigSetActiveAccountEmail
    \/ WritePartialConfig
    \/ ConfigDamaged

SpecConfig == InitFaults /\ [][NextConfig]_vars

\* C37: whenever no config file exists, loadConfig() returns activeAccount
\* null and cacheTTL 300 and getCacheTTL() returns 300, whatever callers
\* did before to config objects returned by earlier loadConfig() calls.
C37_DefaultsNeverChange ==
    configFile = NoFile
    => /\ loadConfig.activeAccount = Null
       /\ loadConfig.cacheTTL = 300
       /\ getCacheTTL = 300

\* C38: setActiveAccountEmail(x) changes only the activeAccount field of the
\* persisted config: the version and the cacheTTL stored before the call
\* are the same after it, what loadConfig returns for them is the same, and
\* getActiveAccountEmail() then returns x, for x = null too.
C38_OnlyActiveAccountChanges ==
    [][\A x \in ConfigEmails \cup {Null} :
         (lastOp'.op = "setActiveAccountEmail" /\ lastOp'.email = x)
         => /\ configFile'.kind = "config"
            /\ configFile'.activeAccount = x
            /\ \E y \in {x} : getActiveAccountEmail' = y
            /\ configFile.kind = "config"
                  => \A k \in DOMAIN configFile \ {"activeAccount"} :
                          configFile'[k] = configFile[k]
            /\ \E v \in {loadConfig.version} : loadConfig'.version = v
            /\ \E t \in {loadConfig.cacheTTL} : loadConfig'.cacheTTL = t
            /\ UNCHANGED <<dirs, tokenFile, metaFile, cacheFile,
                           legacyFile>>]_vars

\* the active account was a@x in a file with version 1.0 and cacheTTL 1, and
\* setActiveAccountEmail(null) has left a file with the same version and
\* cacheTTL and no active account
C38_Witness ==
    /\ lastOp.op = "setActiveAccountEmail"
    /\ lastOp.email = Null
    /\ lastOp.prevActive = EmailA
    /\ configFile.kind = "config"
    /\ configFile.version = "1.0"
    /\ configFile.cacheTTL = 1
    /\ configFile.activeAccount = Null
    /\ getActiveAccountEmail = Null

\* ------------------------------------------------------------------------
\* wakeup/cron-installer.ts.  A crontab line is the sequence of its words;
\* the crontab is the sequence of its lines
\* ------------------------------------------------------------------------
CRON_COMMENT_MARKER == "antigravity-usage-wakeup"

\* the words that contain the marker text
WordsWithMarker == {CRON_COMMENT_MARKER, "/opt/antigravity-usage-wakeup.sh"}

\* line.includes(CRON_COMMENT_MARKER)
HasMarker(line) == \E i \in DOMAIN line : line[i] \in WordsWithMarker

NoMarker(line) == ~HasMarker(line)

\* line.trim() is not the empty string
NotBlank(line) == \E i \in DOMAIN line : line[i] # " "

\* process.platform === 'darwin' || process.platform === 'linux'
isCronSupported(platform) == platform \in {"darwin", "linux"}

\* what getBinaryPath() returns when it finds the binary
BinaryPath == "/usr/bin/antigravity-usage"

\* `${cronExpression} ${command} # ${CRON_COMMENT_MARKER}`
CronLine(cronExpression) ==
    <<cronExpression, BinaryPath, "wakeup", "trigger", "--scheduled", "#",
      CRON_COMMENT_MARKER>>

\* loadCrontab(): the non-blank lines of `crontab -l`, or no lines at all
\* when the command fails
loadCrontab(readOk) ==
    IF readOk THEN SelectSeq(crontab, NotBlank) ELSE <<>>

removeWakeupEntries(lines) == SelectSeq(lines, NoMarker)

\* installCronJob(cronExpression); binaryOk: getBinaryPath finds a path;
\* readOk, writeOk: `crontab -l` and `crontab -` succeed
installCronJob(cronExpression, platform, binaryOk, readOk, writeOk) ==
    LET lines == loadCrontab(readOk)
        filteredLines == removeWakeupEntries(lines)
        success == isCronSupported(platform) /\ binaryOk /\ writeOk
    IN
    /\ crontab' = IF success
                  THEN Append(filteredLines, CronLine(cronExpression))
                  ELSE crontab
    /\ lastOp' = [op |-> "installCronJob", expr |-> cronExpression,
                  success |-> success, platform |-> platform,
                  readOk |-> readOk]
    /\ UNCHANGED <<storage, now, order, mgr, calls, issued, flow, reqs, cmd,
                   probe, defaultPreferences>>

\* uninstallCronJob()
uninstallCronJob(platform, readOk, writeOk) ==
    LET lines == loadCrontab(readOk)
        filteredLines == removeWakeupEntries(lines)
        result == /\ isCronSupported(platform)
                  /\ (Len(filteredLines) = Len(lines) \/ writeOk)
    IN
    /\ crontab' = IF /\ isCronSupported(platform)
                     /\ Len(filteredLines) # Len(lines)
                     /\ writeOk
                  THEN filteredLines
                  ELSE crontab
    /\ lastOp' = [op |-> "uninstallCronJob", result |-> result,
                  platform |-> platform, readOk |-> readOk]
    /\ UNCHANGED <<storage, now, order, mgr, calls, issued, flow, reqs, cmd,
                   probe, defaultPreferences>>

\* ------------------------------------------------------------------------
\* Specification SpecCron: a user's crontab, edited by the user and by
\* installCronJob and uninstallCronJob
\* ------------------------------------------------------------------------
MaxLines == 3

CronExpressions == {"0 */6 * * *", "0 9 * * *"}

Platforms == {"linux", "win32"}

\* the lines a user writes: a job, an empty line, a line of blanks, and a
\* job whose command has the marker text in its name
UserLines ==
    {<<"0 5 * * *", "/usr/bin/backup">>, <<>>, <<" ">>,
     <<"0 6 * * *", "/opt/antigravity-usage-wakeup.sh">>}

\* the user adds a line at the end of the crontab (crontab -e)
UserAppends(line) ==
    /\ Len(crontab) < MaxLines
    /\ crontab' = Append(crontab, line)
    /\ lastOp' = [op |-> "crontab -e"]
    /\ UNCHANGED <<storage, now, order, mgr, calls, issued, flow, reqs, cmd,
                   probe, defaultPreferences>>

CronEdited == \E line \in UserLines : UserAppends(line)

InstallCronJob ==
    \E e \in CronExpressions : \E pf \in Platforms :
        \E binaryOk, readOk, writeOk \in BOOLEAN :
            installCronJob(e, pf, binaryOk, readOk, writeOk)

UninstallCronJob ==
    \E pf \in Platforms : \E readOk, writeOk \in BOOLEAN :
        uninstallCronJob(pf, readOk, writeOk)

NextCron ==
    \/ CronEdited
    \/ InstallCronJob
    \/ UninstallCronJob

SpecCron == InitFaults /\ [][NextCron]_vars

\* C39: after a successful installCronJob(expr) the crontab has exactly one
\* line with the marker, the new entry for expr, and every line that was
\* there without the marker is retained in its order; installing again
\* with the same expression leaves the crontab unchanged; on a supported
\* platform uninstallCronJob removes all marker lines and no other line,
\* and returns true when there was nothing to remove.
C39_CrontabKeepsOtherLines ==
    [][/\ (lastOp'.op = "installCronJob" /\ lastOp'.success)
          => /\ \E e \in CronExpressions :
                   /\ e = lastOp'.expr
                   /\ SelectSeq(crontab', HasMarker) = <<CronLine(e)>>
             /\ SelectSeq(crontab', NoMarker) = SelectSeq(crontab, NoMarker)
             /\ (/\ lastOp.op = "installCronJob"
                 /\ lastOp.success
                 /\ lastOp.expr = lastOp'.expr)
                => crontab' = crontab
       /\ (lastOp'.op = "uninstallCronJob"
              /\ isCronSupported(lastOp'.platform))
          => /\ lastOp'.result
                   => crontab' = SelectSeq(crontab, NoMarker)
             /\ SelectSeq(crontab, HasMarker) = <<>>
                   => (lastOp'.result /\ crontab' = crontab)]_vars

\* ------------------------------------------------------------------------
\* Specification SpecStorage: the per-account records of accounts/storage.ts
\* written, read back and deleted for accounts whose addresses differ only
\* in characters that getAccountDir replaces
\* ------------------------------------------------------------------------
StorageEmails == {EmailA, EmailCPlus, EmailCUnder}

\* token records: the optional fields present and absent, the empty string
\* and epoch 0 among the values
StorageTokens(email) ==
    {StoredTokens("at0", "", 0, Null, Undefined),
     StoredTokens("at0", "rt0", 3600000, Null, "p1"),
     StoredTokens("at0", "rt0", 3600000, email, "p1")}

StorageMetadata(email) ==
    {[kind |-> "metadata", email |-> email, addedAt |-> ToISOString(0),
      lastUsed |-> ToISOString(0)]}

StorageCaches ==
    {[kind |-> "cache", cachedAt |-> ToISOString(0), ttl |-> DEFAULT_CACHE_TTL,
      data |-> "q1"]}

InitStorageSpec ==
    /\ InitStorage
    /\ InitProcs
    /\ now = 0
    /\ order = DirOrder
    /\ lastOp = [op |-> "none"]

SaveAccountTokens ==
    \E e \in StorageEmails : \E t \in StorageTokens(e) : saveAccountTokens(e, t)

SaveAccountMetadata ==
    \E e \in StorageEmails : \E m \in StorageMetadata(e) :
        saveAccountMetadata(e, m)

SaveAccountCache ==
    \E e \in StorageEmails : \E c \in StorageCaches : saveAccountCache(e, c)

DeleteAccount ==
    \E e \in StorageEmails : \E ok \in BOOLEAN : deleteAccount(e, ok)

NextStorage ==
    \/ SaveAccountTokens
    \/ SaveAccountMetadata
    \/ SaveAccountCache
    \/ DeleteAccount

SpecStorage == InitStorageSpec /\ [][NextStorage]_vars

TokenFields ==
    {"accessToken", "refreshToken", "expiresAt", "email", "projectId"}

\* C21: loadAccountTokens(e) after saveAccountTokens(e, t) returns a record
\* equal to t in every field, and a save to another account leaves what
\* loadAccountTokens(e) returns unchanged.
C21_TokenRoundTrip ==
    [][\A e \in StorageEmails :
         /\ (lastOp'.op = "saveAccountTokens" /\ lastOp'.email = e)
               => /\ loadAccountTokens(e)' # NoFile
                  /\ \A f \in TokenFields :
                        Property(loadAccountTokens(e)', f)
                            = Property(lastOp'.tokens, f)
         /\ (lastOp'.op = "saveAccountTokens" /\ lastOp'.email # e)
               => loadAccountTokens(e)' = loadAccountTokens(e)]_vars

\* C27: for every email e, accountExists(e) holds iff the token record of e
\* is on disk, and iff e is an element of listAccountEmails().
C27_ExistsIffListed ==
    \A e \in StorageEmails :
        /\ accountExists(e) <=> tokenFile[SafeName(e)] # NoFile
        /\ accountExists(e) <=>
              \E i \in DOMAIN listAccountEmails : listAccountEmails[i] = e

\* C28: the per-account records are keyed one-to-one with the accounts:
\* saving or deleting a record of one account never changes the token,
\* metadata or cache record loaded for a different account.
C28_RecordsKeyedOneToOne ==
    [][\A e \in StorageEmails : \A other \in StorageEmails \ {e} :
         (/\ lastOp'.op \in {"saveAccountTokens", "saveAccountMetadata",
                             "saveAccountCache", "deleteAccount"}
          /\ lastOp'.email = e)
         => /\ loadAccountTokens(other)' = loadAccountTokens(other)
            /\ loadAccountMetadata(other)' = loadAccountMetadata(other)
            /\ loadAccountCache(other)' = loadAccountCache(other)]_vars

\* ------------------------------------------------------------------------
\* Specification SpecAlias: the account manager used with addresses that
\* differ only in characters that getAccountDir replaces
\* ------------------------------------------------------------------------
AliasAdd ==
    \E e \in StorageEmails :
        /\ addAccount(StoredTokens("at1", "rt1", 3600000, e, Undefined), e)
        /\ lastOp' = [op |-> "addAccount", email |-> e,
                      prevActive |-> getActiveAccountEmail]
        /\ UNCHANGED <<now, order, procs>>

AliasSaveCache == \E e \in StorageEmails : saveCache(e, "q1")

AliasSetActive == \E e \in StorageEmails : setActiveAccount(e)

\* the directory deletion succeeds here; its failure is part of Spec
AliasRemove == \E e \in StorageEmails : removeAccount(e, TRUE)

AliasTick == Tick(AcctInstants)

NextAlias ==
    \/ AliasAdd
    \/ AliasSaveCache
    \/ AliasSetActive
    \/ AliasRemove
    \/ AliasTick

SpecAlias == InitStorageSpec /\ [][NextAlias]_vars

\* C33: removeAccount(e) for an existing account e that is not the active
\* account leaves the active account and the token, metadata and cache
\* records of every other account unchanged, and afterwards no token,
\* metadata or cache record of e remains.
C33_RemoveInactiveFrame ==
    [][\A e \in StorageEmails :
         (/\ lastOp'.op = "removeAccount"
          /\ lastOp'.email = e
          /\ accountExists(e)
          /\ e # getActiveAccountEmail)
         => /\ getActiveAccountEmail' = getActiveAccountEmail
            /\ \A other \in StorageEmails \ {e} :
                  /\ loadAccountTokens(other)' = loadAccountTokens(other)
                  /\ loadAccountMetadata(other)' = loadAccountMetadata(other)
                  /\ loadAccountCache(other)' = loadAccountCache(other)
            /\ loadAccountTokens(e)' = NoFile
            /\ loadAccountMetadata(e)' = NoFile
            /\ loadAccountCache(e)' = NoFile]_vars

\* ------------------------------------------------------------------------
\* Specification SpecProbe: the port prober on lists of candidate ports whose
\* attempts end in any order
\* ------------------------------------------------------------------------
PortLists == {<< >>, <<1234>>, <<2000, 1000>>, <<1000, 2000, 3000>>}

\* the answers of the ports of a list, one outcome for each transport: every
\* combination on the lists of one and two ports; on the list of three ports
\* https fails on every port and http answers in every way
Answers(ports) ==
    IF Len(ports) <= 2 THEN [DOMAIN ports -> [Transports -> Outcomes]]
    ELSE {a \in [DOMAIN ports -> [Transports -> Outcomes]] :
             \A i \in DOMAIN ports : a[i]["https"] = "error"}

InitProbe ==
    /\ InitStorage
    /\ InitProcs
    /\ now = 0
    /\ order = DirOrder
    /\ lastOp = [op |-> "none"]

ProbeStart ==
    \E ports \in PortLists : \E answers \in Answers(ports) :
        probeForConnectAPI(ports, answers)

AttemptEnds ==
    \E i \in 1..3 : \E t \in Transports : ProbeCompletes(i, t)

NextProbe ==
    \/ ProbeStart
    \/ AttemptEnds

SpecProbe == InitProbe /\ [][NextProbe]_vars

\* a port of the list answers 200 on one of the transports
AnySuccess ==
    \E i \in DOMAIN probe.ports : \E t \in Transports :
        probe.answers[i][t] = "200"

\* C22: probeForConnectAPI returns null if and only if no candidate port
\* answers 200 on https or on http; errors, timeouts and other statuses end
\* in a result, never in an exception.
C22_NullIffNoSuccess ==
    probe.pc = "done" =>
        /\ probe.result \in {NoEndpoint} \cup
              {ProbeResult(t, probe.ports[i]) :
                  t \in Transports, i \in DOMAIN probe.ports}
        /\ (probe.result = NoEndpoint) <=> ~AnySuccess

C22_Witness ==
    /\ probe.pc = "done"
    /\ probe.ports = <<2000, 1000>>
    /\ probe.result = NoEndpoint
    /\ probe.answers[1] = [https |-> "404", http |-> "timeout"]
    /\ probe.answers[2] = [https |-> "error", http |-> "404"]

\* the ports of the list that answer 200 on one of the transports
Successful ==
    {i \in DOMAIN probe.ports :
        \E t \in Transports : probe.answers[i][t] = "200"}

\* C23: the result is the first port in input order that answers 200 on a
\* transport, whatever the order in which the attempts end and however the
\* other ports fail; at that port https if https answers 200, else http.
C23_FirstPortInOrderWins ==
    (probe.pc = "done" /\ Successful # {}) =>
        LET i == CHOOSE x \in Successful : \A y \in Successful : x <= y IN
        probe.result =
            ProbeResult(IF probe.answers[i]["https"] = "200"
                        THEN "https" ELSE "http", probe.ports[i])

\* the https attempt on the second port has ended with 200 and the result
\* is still the first port, over http
C23_Witness ==
    /\ probe.pc = "done"
    /\ probe.ports = <<2000, 1000>>
    /\ probe.answers[1] = [https |-> "timeout", http |-> "200"]
    /\ probe.answers[2]["https"] = "200"
    /\ probe.state[2]["https"] = "done"
    /\ probe.result = ProbeResult("http", 2000)

\* C24: a port whose https attempt is answered with a status other than 200
\* and whose http attempt is answered with 200 is reported over http (when
\* no earlier port succeeds), and no attempt answered otherwise than with
\* 200 is ever the result.
C24_Non200NeverReported ==
    probe.pc = "done" =>
        /\ \A i \in DOMAIN probe.ports :
              (/\ probe.answers[i]["https"] = "404"
               /\ probe.answers[i]["http"] = "200"
               /\ \A j \in 1..(i - 1) : j \notin Successful)
              => probe.result = ProbeResult("http", probe.ports[i])
        /\ probe.result # NoEndpoint =>
              \E i \in DOMAIN probe.ports :
                  /\ probe.ports[i] = probe.result.port
                  /\ probe.answers[i][probe.result.protocol] = "200"

C24_Witness ==
    /\ probe.pc = "done"
    /\ probe.ports = <<1234>>
    /\ probe.answers[1] = [https |-> "404", http |-> "200"]
    /\ probe.result = ProbeResult("http", 1234)

====
